---- MODULE Spec2Model ----
(***************************************************************************)
(* Validation engine of CVRB (server/src/CVRB/validate/validator.js).      *)
(* One Validator object runs the creator's program and every validator's   *)
(* program over the questions of a world, compares the results and yields  *)
(* a validation outcome.                                                   *)
(***************************************************************************)
EXTENDS Integers, Sequences, FiniteSets, TLC

\* ---------------------------------------------------------------- bounds
MaxQuestions == 2
MaxValidators == 2
\* number of places where a world departs from the healthy world (every
\* program loads, every question has a getAnswer fragment returning 4)
MaxDeviations == 1
\* solver models on the leaderboard, and answered questions of one solution
MaxModels == 2
MaxAttempts == 3
\* solver scores of one world
MaxScores == 3
\* objects nested in the object of a response
MaxNesting == 2
\* solveWorld calls on one world
MaxRuns == 2
\* the worlds of one batch call
MaxWorlds == 3
\* the readings of the clock of one benchmark script
MaxTicks == 7
\* the getWorldSolutions calls of one client
MaxRequests == 3

\* `const x = v; F(x)`: v is evaluated once
With(v, F(_)) == CHOOSE r \in {F(x) : x \in {v}} : TRUE

\* ------------------------------------------------------- JavaScript values
\* JS `undefined` where a string is expected (error.message of a non-Error)
UNDEFINED == "<undefined>"

Val(t, n, s, ks, es) == [type |-> t, num |-> n, str |-> s, keys |-> ks, elems |-> es]
Undef == Val("undefined", 0, "", <<>>, <<>>)
Null == Val("null", 0, "", <<>>, <<>>)
Num(n) == Val("number", n, "", <<>>, <<>>)
Str(s) == Val("string", 0, s, <<>>, <<>>)
Arr(es) == Val("array", 0, "", <<>>, es)
\* an object: its keys in insertion order and the value of each
Obj(ks, es) == Val("object", 0, "", ks, es)

\* keys that are canonical array indices, with their numeric value
IndexOf == ("0" :> 0) @@ ("1" :> 1) @@ ("2" :> 2)
IsArrayIndex(k) == k \in DOMAIN IndexOf

RECURSIVE SortByIndex(_, _)
SortByIndex(ks, S) ==
  IF S = {} THEN <<>>
  ELSE LET m == CHOOSE i \in S : \A j \in S : IndexOf[ks[i]] <= IndexOf[ks[j]]
       IN <<m>> \o SortByIndex(ks, S \ {m})

\* positions of an object's keys in property enumeration order: integer
\* keys ascending, then the other keys in insertion order
OwnPropertyKeys(ks) ==
  SortByIndex(ks, {i \in 1..Len(ks) : IsArrayIndex(ks[i])})
    \o SelectSeq([i \in 1..Len(ks) |-> i], LAMBDA i : ~IsArrayIndex(ks[i]))

RECURSIVE JSONstringify(_)
RECURSIVE StringifyElems(_, _)
RECURSIVE StringifyProps(_, _, _)

\* the text JSON.stringify produces, as a sequence of tokens; << >> stands
\* for the non-string result `undefined`
JSONstringify(v) ==
  CASE v.type = "undefined" -> <<>>
    [] v.type = "null" -> <<"null">>
    [] v.type = "number" -> <<ToString(v.num)>>
    [] v.type = "string" -> <<"\"", v.str, "\"">>
    [] v.type = "array" -> <<"[">> \o StringifyElems(v.elems, 1) \o <<"]">>
    [] v.type = "object" ->
         <<"{">> \o StringifyProps(v, OwnPropertyKeys(v.keys), TRUE) \o <<"}">>

\* array elements from position i: an undefined element is written null
StringifyElems(es, i) ==
  IF i > Len(es) THEN <<>>
  ELSE (IF i > 1 THEN <<",">> ELSE <<>>)
         \o (IF es[i].type = "undefined" THEN <<"null">> ELSE JSONstringify(es[i]))
         \o StringifyElems(es, i + 1)

\* object properties at the positions `order`: an undefined property is left out
StringifyProps(v, order, first) ==
  IF order = <<>> THEN <<>>
  ELSE LET p == Head(order) IN
       IF v.elems[p].type = "undefined"
       THEN StringifyProps(v, Tail(order), first)
       ELSE (IF first THEN <<>> ELSE <<",">>)
              \o <<"\"", v.keys[p], "\"", ":">> \o JSONstringify(v.elems[p])
              \o StringifyProps(v, Tail(order), FALSE)

\* ------------------------------------------------------------ exceptions
\* a value in flight after `throw`: an Error object with its message, a
\* value that is not an Error (its .message reads undefined), or null /
\* undefined (reading .message or .code of it is itself a TypeError)
NewError(msg) == [kind |-> "Error", message |-> msg]
NonError == [kind |-> "NonError", message |-> UNDEFINED]
Nullish == [kind |-> "Nullish", message |-> UNDEFINED]
TypeError == NewError("TypeError: Cannot read properties of null or undefined")
ProgramError == NewError("program error")

\* JS truthiness of a string-or-undefined
Truthy(s) == s # UNDEFINED /\ s # ""

\* completion of a block: normal with a value, or abrupt with a thrown value
Return(v) == [threw |-> FALSE, value |-> v, err |-> NewError("")]
Throw(e) == [threw |-> TRUE, value |-> Undef, err |-> e]

\* ------------------------------------------------- programs and questions
\* what running a piece of untrusted code does: return a value, throw, or
\* run past the time limit of the vm
Returns(v) == [kind |-> "return", value |-> v, thrown |-> NewError("")]
Throws(e) == [kind |-> "throw", value |-> Undef, thrown |-> e]
TimesOut == [kind |-> "timeout", value |-> Undef, thrown |-> NewError("")]

\* the throw statements a piece of code is written with
ThrowSources == <<"throw new Error('boom')", "throw 'boom'", "throw null">>
ThrownBy(src) ==
  CASE src = "throw new Error('boom')" -> ProgramError
    [] src = "throw 'boom'" -> NonError
    [] src = "throw null" -> Nullish
IsThrow(src) == \E k \in DOMAIN ThrowSources : ThrowSources[k] = src

\* the values a program returns, by the expression that builds them
ValueOf(src) ==
  CASE src = "return 4" -> Num(4)
    [] src = "return 5" -> Num(5)
    [] src = "return '4'" -> Str("4")
    [] src = "return null" -> Null
    [] src = "return [1,2]" -> Arr(<<Num(1), Num(2)>>)
    [] src = "return [2,1]" -> Arr(<<Num(2), Num(1)>>)
    [] src = "return {a:1,b:2}" -> Obj(<<"a", "b">>, <<Num(1), Num(2)>>)
    [] src = "return {b:2,a:1}" -> Obj(<<"b", "a">>, <<Num(2), Num(1)>>)
    [] src = "return {a:1,b:3}" -> Obj(<<"a", "b">>, <<Num(1), Num(3)>>)
    [] src = "return {a:1}" -> Obj(<<"a">>, <<Num(1)>>)
    [] src = "return {1:1,2:2}" -> Obj(<<"1", "2">>, <<Num(1), Num(2)>>)
    [] src = "return {2:2,1:1}" -> Obj(<<"2", "1">>, <<Num(2), Num(1)>>)
    [] src = "return {a:[1,2],b:{c:1,d:2}}" ->
         Obj(<<"a", "b">>, <<Arr(<<Num(1), Num(2)>>), Obj(<<"c", "d">>, <<Num(1), Num(2)>>)>>)
    [] src = "return {a:[1,2],b:{d:2,c:1}}" ->
         Obj(<<"a", "b">>, <<Arr(<<Num(1), Num(2)>>), Obj(<<"d", "c">>, <<Num(2), Num(1)>>)>>)
    [] src = "return {a:[2,1],b:{c:1,d:2}}" ->
         Obj(<<"a", "b">>, <<Arr(<<Num(2), Num(1)>>), Obj(<<"c", "d">>, <<Num(1), Num(2)>>)>>)
    [] src = "return undefined" -> Undef

\* the behaviour of getAnswer / run on one question, by its source
Behaviour(src) ==
  IF src = "loop forever" THEN TimesOut
  ELSE IF IsThrow(src) THEN Throws(ThrownBy(src))
  ELSE Returns(ValueOf(src))

\* what executing a program's source does: it exposes a Simulation class, a
\* simulation instance or neither, or it throws
Exposes(x) == [kind |-> "return", exposes |-> x, thrown |-> NewError("")]
LoadThrows(e) == [kind |-> "throw", exposes |-> "none", thrown |-> e]
LoadOf(src) ==
  CASE src = "class Simulation" -> Exposes("class")
    [] src = "const simulation" -> Exposes("instance")
    [] src = "no Simulation" -> Exposes("none")
    [] OTHER -> LoadThrows(ThrownBy(src))

\* evaluation of a question's parameters: "plain" parameters, or the value
\* thrown while evaluating a parameter string that contains `() =>`
ParamEvalOf(src) == IF IsThrow(src) THEN Throws(ThrownBy(src)) ELSE Returns(Undef)

\* _runSimulation, lines 40-53: parameter preprocessing of one question
EvalParams(question) ==
  LET e == ParamEvalOf(question.parameters) IN
  IF e.kind = "throw" THEN Throw(e.thrown) ELSE Return(Undef)

\* a runner that takes a script cut off by the time limit for one that
\* returned nothing
RunInContextTimeoutSwallowed(outcome) ==
  CASE outcome.kind = "return" -> Return(outcome.value)
    [] outcome.kind = "timeout" -> Return(Undef)
    [] outcome.kind = "throw" ->
         IF outcome.thrown.kind = "Nullish" THEN Throw(TypeError)
         ELSE Throw(outcome.thrown)
\* _runSimulation, lines 64-74 and 79-95: run a script in the vm under the
\* timeout and normalise the timeout error
RunInContext(outcome) ==
  CASE outcome.kind = "return" -> Return(outcome.value)
    [] outcome.kind = "timeout" -> Throw(NewError("Simulation timeout"))
    [] outcome.kind = "throw" ->
         IF outcome.thrown.kind = "Nullish" THEN Throw(TypeError)
         ELSE Throw(outcome.thrown)

\* a runner whose callers get the fallback to run()
AllowFallbackOn == TRUE
\* _runSimulation line 24: options default
AllowFallbackDefault == FALSE

\* _runSimulation, lines 39-98: the try block of question number i
TryQuestion(program, question, i, allowFallback) ==
  With(EvalParams(question), LAMBDA params :
    IF params.threw THEN params
    ELSE
    With(IF question.hasValidatorFn THEN RunInContext(Behaviour(program.answer[i]))
         ELSE Return(Undef), LAMBDA answer :
      IF answer.threw THEN answer
      ELSE IF answer.value.type = "undefined" /\ allowFallback
           THEN RunInContext(Behaviour(program.run[i]))
      ELSE IF answer.value.type = "undefined"
           THEN Throw(NewError("Validator_fn failed and fallback is disabled"))
      ELSE answer))

ResultEntry(v) == [hasResult |-> TRUE, result |-> v, error |-> UNDEFINED]
ErrorEntry(msg) == [hasResult |-> FALSE, result |-> Undef, error |-> msg]

\* the result of a call: its return value, or the error it raised
Returned(r) == [raised |-> FALSE, error |-> NewError(""), results |-> r]
Raised(e) == [raised |-> TRUE, error |-> e, results |-> <<>>]

RECURSIVE RunQuestions(_, _, _, _, _)
\* _runSimulation, lines 36-120: the loop from question i on, `acc` holding
\* the entries of the questions before it
RunQuestions(program, questions, i, allowFallback, acc) ==
  IF i > Len(questions) THEN Returned(acc)
  ELSE With(TryQuestion(program, questions[i], i, allowFallback), LAMBDA c :
         IF ~c.threw
         THEN RunQuestions(program, questions, i + 1, allowFallback,
                           Append(acc, ResultEntry(c.value)))
         ELSE IF c.err.kind = "Nullish"
         THEN Raised(TypeError)   \* error.message inside the catch block
         ELSE RunQuestions(program, questions, i + 1, allowFallback,
                           Append(acc, ErrorEntry(c.err.message))))

\* _runSimulation(SimulationClass, questions, options)
RunSimulation(hasClass, program, questions, allowFallback) ==
  IF ~hasClass THEN Raised(NewError("SimulationClass is required"))
  ELSE IF Len(questions) = 0 THEN Raised(NewError("No questions provided"))
  ELSE RunQuestions(program, questions, 1, allowFallback, <<>>)

\* --------------------------------------------------------- database record
\* a program: source text present or not, what its top level does, what
\* getAnswer does with its Simulation on question i, what run does on it
HealthyProgram(nQ) ==
  [present |-> TRUE, load |-> "class Simulation",
   answer |-> [i \in 1..nQ |-> "return 4"],
   run |-> [i \in 1..nQ |-> "return 4"]]

\* a question (its id is its position in world_info.questions)
HealthyQuestion == [hasValidatorFn |-> TRUE, parameters |-> "plain"]

HealthyRecord(nQ, nV) ==
  [isNull |-> FALSE,
   world_code |-> HealthyProgram(nQ),
   questions |-> [i \in 1..nQ |-> HealthyQuestion],
   validation_code |-> [j \in 1..nV |-> HealthyProgram(nQ)]]

NullRecord ==
  [isNull |-> TRUE, world_code |-> HealthyProgram(0), questions |-> <<>>,
   validation_code |-> <<>>]

CreatorLoadAlts == <<"no Simulation">> \o ThrowSources
ValidatorLoadAlts == <<"const simulation", "no Simulation">> \o ThrowSources
AnswerAlts == <<"return 5", "return undefined", "loop forever">> \o ThrowSources

\* one departure from the healthy record: <<place, validator, question, alternative>>
DeviationsOf(nQ, nV) ==
  {<<1, 0, 0, 1>>}
    \cup {<<2, 0, 0, a>> : a \in DOMAIN CreatorLoadAlts}
    \cup {<<3, 0, i, a>> : i \in 1..nQ, a \in DOMAIN AnswerAlts}
    \cup {<<4, j, 0, a>> : j \in 1..nV, a \in DOMAIN ValidatorLoadAlts}
    \cup {<<5, j, i, a>> : j \in 1..nV, i \in 1..nQ, a \in DOMAIN AnswerAlts}
    \cup {<<6, 0, i, 1>> : i \in 1..nQ}
    \cup {<<7, 0, i, a>> : i \in 1..nQ, a \in DOMAIN ThrowSources}

Deviate(r, d) ==
  CASE d[1] = 1 -> [r EXCEPT !.world_code.present = FALSE]
    [] d[1] = 2 -> [r EXCEPT !.world_code.load = CreatorLoadAlts[d[4]]]
    [] d[1] = 3 -> [r EXCEPT !.world_code.answer[d[3]] = AnswerAlts[d[4]]]
    [] d[1] = 4 -> [r EXCEPT !.validation_code[d[2]].load = ValidatorLoadAlts[d[4]]]
    [] d[1] = 5 -> [r EXCEPT !.validation_code[d[2]].answer[d[3]] = AnswerAlts[d[4]]]
    [] d[1] = 6 -> [r EXCEPT !.questions[d[3]].hasValidatorFn = FALSE]
    [] d[1] = 7 -> [r EXCEPT !.questions[d[3]].parameters = ThrowSources[d[4]]]

\* places are taken in increasing order, each at most once
PlaceBefore(d, e) ==
  \/ d[1] < e[1]
  \/ d[1] = e[1] /\ d[2] < e[2]
  \/ d[1] = e[1] /\ d[2] = e[2] /\ d[3] < e[3]

RECURSIVE DeviationLists(_, _)
\* the lists of at most k departures, places increasing
DeviationLists(D, k) ==
  IF k = 0 THEN {<<>>}
  ELSE LET shorter == DeviationLists(D, k - 1)
           longest == {ds \in shorter : Len(ds) = k - 1}
       IN shorter \cup
          {Append(p[1], p[2]) :
             p \in {q \in longest \X D : q[1] = <<>> \/ PlaceBefore(q[1][Len(q[1])], q[2])}}

RECURSIVE DeviateAll(_, _)
DeviateAll(r, ds) == IF ds = <<>> THEN r ELSE DeviateAll(Deviate(r, Head(ds)), Tail(ds))

\* ------------------------------------------------------------------ state
VARIABLES
  pc,                 \* "idle", or "done" once validateWorldFromDB has settled
  dbRecord,           \* the argument of the validateWorldFromDB call
  worldData,          \* Validator.worldData
  creatorResults,     \* Validator.creatorResults
  validatorResults,   \* Validator.validatorResults
  success,            \* Validator.success
  comparisonResults,  \* what compareResults returned to validateWorldFromDB
  outcome,            \* what validateWorldFromDB returned, or that it raised
  simLog              \* what each call of _runSimulation returned or raised

validatorVars == <<dbRecord, worldData, creatorResults, validatorResults, success,
                   comparisonResults, outcome, simLog>>

VARIABLES
  dbWorld,            \* the world record SolverController.solveWorld loaded
  runParallel,        \* the runParallel argument of Solver.solveQuestions
  pending,            \* the questions whose attemptSolve has not settled yet
  solutions,          \* Solver.solutions
  solutionRecord      \* the row of the solutions table written by solveWorld

solverVars == <<dbWorld, runParallel, pending, solutions, solutionRecord>>

VARIABLES
  solutionRows,       \* the solutions calculateSolverStats read from the database
  stats               \* the leaderboard rows calculateSolverStats returned

statsVars == <<solutionRows, stats>>

VARIABLES
  scores,             \* the scores quality was called with
  Q,                  \* the scaling factor it was called with
  qualityScore        \* the number it returned, in millionths

qualityVars == <<scores, Q, qualityScore>>

VARIABLES
  rawResponse,        \* the text tryParseJson was called with
  parsedJson          \* the value it returned

jsonVars == <<rawResponse, parsedJson>>

VARIABLES
  worldRow,           \* the row of the worlds table that _runValidation writes
  validationResult    \* what _runValidation returned

controllerVars == <<worldRow, validationResult>>

VARIABLES
  solutionsTable,     \* the rows of the solutions table of one world
  storedQuality,      \* the quality_score column of the world
  runs                \* the solveWorld calls made on the world

runsVars == <<solutionsTable, storedQuality, runs>>

VARIABLES
  batch,              \* a call of generateWorlds or solveWorlds
  returned            \* what the call returned
batchVars == <<batch, returned>>

VARIABLES
  _creators,          \* the records of the finished creators
  _current,           \* the creator being processed
  hrtime,             \* the monotonic clock, in ticks
  callThrew           \* whether the last call threw
reporterVars == <<_creators, _current, hrtime, callThrew>>

VARIABLES
  worldsTable,        \* the rows of the worlds table
  promotion,          \* a call of promoteWorlds
  updateCounts        \* the updateWorldSet calls made, by world
promotionVars == <<worldsTable, promotion, updateCounts>>

VARIABLES
  sharedValidator,    \* the fields of the Validator instance of the controller
  validations         \* the validateWorldFromDB calls in progress, by world
sharedVars == <<sharedValidator, validations>>

VARIABLES
  serverWorld,        \* the world and its solutions on the server
  solutionsCache,     \* ApiService.solutionsCache[worldId]
  requests,           \* the getWorldSolutions calls of the client
  deletion            \* the deleteWorld call of the client
cacheVars == <<serverWorld, solutionsCache, requests, deletion>>

\* the variables of the validator, the solver, the statistics and the controller
earlierVars == <<validatorVars, solverVars, statsVars, qualityVars, jsonVars, controllerVars>>
\* the variables of the stores and services around them
laterVars == <<runsVars, batchVars, reporterVars, promotionVars, sharedVars, cacheVars>>
besidesRuns == <<pc, earlierVars, batchVars, reporterVars, promotionVars, sharedVars, cacheVars>>
besidesBatch == <<pc, earlierVars, runsVars, reporterVars, promotionVars, sharedVars, cacheVars>>
besidesReporter == <<pc, earlierVars, runsVars, batchVars, promotionVars, sharedVars, cacheVars>>
besidesPromotion == <<pc, earlierVars, runsVars, batchVars, reporterVars, sharedVars, cacheVars>>
besidesShared == <<pc, earlierVars, runsVars, batchVars, reporterVars, promotionVars, cacheVars>>
besidesCache == <<pc, earlierVars, runsVars, batchVars, reporterVars, promotionVars, sharedVars>>

vars == <<pc, earlierVars, laterVars>>

NoWorldData == [isNull |-> TRUE, code |-> HealthyProgram(0), questions |-> <<>>, validators |-> <<>>]
NoResults == [isNull |-> TRUE, results |-> <<>>]
NoComparison == [isNull |-> TRUE, questions |-> <<>>, validatorAgreement |-> [total |-> 0, agreed |-> 0]]
NoAnswers == [isNull |-> TRUE, answers |-> <<>>]
NoOutcome ==
  [raised |-> FALSE, success |-> FALSE, error |-> UNDEFINED,
   agreement |-> [total |-> 0, agreed |-> 0], hasComparison |-> FALSE,
   agreedAnswers |-> NoAnswers]

\* the Validator object as its constructor leaves it
\* no solveWorld call has been made
NoWorld == [isNull |-> TRUE, questions |-> <<>>]
NoSolutionRecord == [isNull |-> TRUE, score |-> 0, raw_responses |-> <<>>,
                     results |-> [total_questions |-> 0, total_correct_answers |-> 0,
                                  error_count |-> 0, breakdown |-> <<>>]]
SolverIdle ==
  /\ dbWorld = NoWorld
  /\ runParallel = TRUE
  /\ pending = {}
  /\ solutions = <<>>
  /\ solutionRecord = NoSolutionRecord

\* calculateSolverStats has not run
StatsIdle == solutionRows = <<>> /\ stats = <<>>

\* quality has not been called
QualityIdle == scores = <<>> /\ Q = 0 /\ qualityScore = 0

\* tryParseJson has not been called
JsonIdle == rawResponse = <<>> /\ parsedJson = Null

\* the row createWorld inserted (is_valid: null) for a world of n questions
Untouched == [kind |-> "untouched", value |-> Undef]
NewRow(n) == [is_valid |-> "null", answers |-> [i \in 1..n |-> Untouched]]
NoValidationResult == [raised |-> FALSE, success |-> FALSE]
\* _runValidation has not been called
ControllerIdle == worldRow = NewRow(0) /\ validationResult = NoValidationResult

\* no solveWorld call has been made on the world, which has no solutions
NoRun == [state |-> "idle", models |-> <<>>, parallelModels |-> FALSE, tasks |-> <<>>,
          qualityScore |-> 0]
RunsIdle ==
  /\ solutionsTable = <<>>
  /\ storedQuality = [isNull |-> FALSE, value |-> 0]
  /\ runs = [c \in 1..MaxRuns |-> NoRun]

NewValidator ==
  [worldData |-> NoWorldData, creatorResults |-> NoResults,
   validatorResults |-> <<>>, success |-> FALSE]

NoBatch == [op |-> "none", state |-> "idle", ids |-> <<>>, tasks |-> <<>>, next |-> 0]
BatchIdle ==
  /\ batch = NoBatch
  /\ returned = <<>>

\* _current before the first startCreator and after endCreator
NoCreator ==
  [open |-> FALSE, name |-> "", start |-> 0, createTime |-> 0, solveTime |-> 0,
   validWorlds |-> 0, invalidWorlds |-> 0, solvedWorlds |-> 0, _solveStart |-> 0]
ReporterIdle ==
  /\ _creators = <<>>
  /\ _current = NoCreator
  /\ hrtime = 1
  /\ callThrew = FALSE

\* a row of the worlds table; set is 0 by default
NoWorldRow == [exists |-> FALSE, is_valid |-> FALSE, quality_score |-> 0, set |-> 0]
NoPromotion ==
  [state |-> "idle", worldIds |-> <<>>, promoteTop |-> 0, exceptionalScore |-> 0,
   worlds |-> <<>>, promoteTargets |-> <<>>, updated |-> 0]
PromotionIdle ==
  /\ worldsTable = [id \in 1..MaxWorlds |-> NoWorldRow]
  /\ promotion = NoPromotion
  /\ updateCounts = [id \in 1..MaxWorlds |-> 0]

\* nothing computed yet: null results
NothingRun == [world |-> 0, answer |-> 0]
NoValidateCall == [pc |-> "created", results |-> NothingRun, comparisonResults |-> NothingRun, result |-> <<>>]
SharedIdle ==
  /\ sharedValidator = [worldData |-> 0, creatorResults |-> NothingRun,
                        validatorResults |-> NothingRun, success |-> FALSE]
  /\ validations = [w \in 1..MaxWorlds |-> NoValidateCall]

\* no entry in solutionsCache
NotCached == [cached |-> FALSE, fetched |-> "never"]
NoRequest == [state |-> "idle", afterDelete |-> FALSE, failed |-> FALSE, data |-> NotCached]
CacheIdle ==
  /\ serverWorld = "stored"
  /\ solutionsCache = NotCached
  /\ requests = [c \in 1..MaxRequests |-> NoRequest]
  /\ deletion = "idle"

Init ==
  /\ pc = "idle"
  /\ dbRecord = NullRecord
  /\ worldData = NewValidator.worldData
  /\ creatorResults = NewValidator.creatorResults
  /\ validatorResults = NewValidator.validatorResults
  /\ success = NewValidator.success
  /\ comparisonResults = NoComparison
  /\ outcome = NoOutcome
  /\ simLog = <<>>
  /\ SolverIdle
  /\ StatsIdle
  /\ QualityIdle
  /\ JsonIdle
  /\ ControllerIdle
  /\ RunsIdle
  /\ BatchIdle
  /\ ReporterIdle
  /\ PromotionIdle
  /\ SharedIdle
  /\ CacheIdle

\* ---------------------------------------------------------- loadWorldFromDB
LoadWorldFromDB(record) ==
  IF record.isNull THEN [loaded |-> FALSE, worldData |-> NoWorldData]
  ELSE [loaded |-> TRUE,
        worldData |-> [isNull |-> FALSE, code |-> record.world_code,
                       questions |-> record.questions,
                       validators |-> record.validation_code]]

\* ------------------------------------------------------------- runWorldCode
\* the creator's program was loaded and _runSimulation was called on it
CreatorSimulated(wd) ==
  /\ ~wd.isNull
  /\ wd.code.present
  /\ Len(wd.questions) > 0
  /\ LoadOf(wd.code.load) = Exposes("class")

RunWorldCodeCall(wd) ==
  IF wd.isNull \/ ~wd.code.present THEN Raised(NewError("World code not loaded"))
  ELSE IF Len(wd.questions) = 0 THEN Raised(NewError("No questions found for this CVRB"))
  ELSE IF LoadOf(wd.code.load).kind = "throw" THEN Raised(LoadOf(wd.code.load).thrown)
  ELSE IF LoadOf(wd.code.load).exposes # "class"
       THEN Raised(NewError("No Simulation class found in world code"))
  ELSE RunSimulation(TRUE, wd.code, wd.questions, AllowFallbackDefault)

\* --------------------------------------------------------- runValidatorCode
ValidatorRun(i, r) == [validatorId |-> i, hasResults |-> TRUE, results |-> r, error |-> UNDEFINED]
ValidatorError(i, msg) == [validatorId |-> i, hasResults |-> FALSE, results |-> <<>>, error |-> msg]

\* the validator's program was loaded and _runSimulation was called on it
ValidatorSimulated(program) ==
  LoadOf(program.load).kind = "return" /\ LoadOf(program.load).exposes \in {"class", "instance"}

\* runValidatorCode, lines 258-306: the try/catch of validator number i; the
\* catch block itself throws when the caught value is null or undefined
RunOneValidator(program, questions, i) ==
  With(RunSimulation(TRUE, program, questions, AllowFallbackDefault), LAMBDA sim :
    With(IF LoadOf(program.load).kind = "throw" THEN Throw(LoadOf(program.load).thrown)
         ELSE IF ~ValidatorSimulated(program)
         THEN Throw(NewError("No Simulation class or simulation instance found in validator"))
         ELSE IF sim.raised THEN Throw(sim.error)
         ELSE Return(Undef),
         LAMBDA thrown :
      [escaped |-> thrown.threw /\ thrown.err.kind = "Nullish",
       entry |-> IF ~thrown.threw THEN ValidatorRun(i, sim.results)
                 ELSE ValidatorError(i, thrown.err.message),
       log |-> IF ValidatorSimulated(program) THEN <<[caller |-> i, ret |-> sim]>> ELSE <<>>]))

RECURSIVE RunValidators(_, _, _, _, _)
\* runValidatorCode, lines 253-310: the loop from validator i on
RunValidators(validators, questions, i, acc, log) ==
  IF i > Len(validators) THEN [raised |-> FALSE, error |-> NewError(""), list |-> acc, log |-> log]
  ELSE With(RunOneValidator(validators[i], questions, i), LAMBDA v :
         IF v.escaped THEN [raised |-> TRUE, error |-> TypeError, list |-> acc, log |-> log \o v.log]
         ELSE RunValidators(validators, questions, i + 1, Append(acc, v.entry), log \o v.log))

RunValidatorCodeCall(wd) ==
  IF Len(wd.validators) = 0
  THEN [raised |-> TRUE, error |-> NewError("No validators found for this CVRB"), list |-> <<>>, log |-> <<>>]
  ELSE IF Len(wd.questions) = 0
  THEN [raised |-> TRUE, error |-> NewError("No questions found for this CVRB"), list |-> <<>>, log |-> <<>>]
  ELSE RunValidators(wd.validators, wd.questions, 1, <<>>, <<>>)

\* ----------------------------------------------------------- compareResults
MatchRecord(id, v, m) == [validatorId |-> id, hasResult |-> TRUE, result |-> v, error |-> UNDEFINED, matches |-> m]
MismatchError(id, msg) == [validatorId |-> id, hasResult |-> FALSE, result |-> Undef, error |-> msg, matches |-> FALSE]

\* compareResults, lines 386-388
Matches(creatorResult, validatorResult) ==
  JSONstringify(creatorResult) = JSONstringify(validatorResult)

\* compareResults, lines 348-436: one validator on question q; `disagree`
\* tells whether the branch taken sets the question's agreement to false
CompareOne(creatorEntry, validator, q) ==
  IF Truthy(validator.error)
  THEN [threw |-> FALSE, rec |-> MismatchError(validator.validatorId, validator.error), disagree |-> TRUE]
  ELSE IF ~validator.hasResults   \* validator.results is undefined
  THEN [threw |-> TRUE, rec |-> MismatchError(validator.validatorId, UNDEFINED), disagree |-> TRUE]
  ELSE IF q \notin DOMAIN validator.results
  THEN [threw |-> FALSE, rec |-> MismatchError(validator.validatorId, "Question not processed"), disagree |-> TRUE]
  ELSE IF Truthy(validator.results[q].error)
  THEN [threw |-> FALSE, rec |-> MismatchError(validator.validatorId, validator.results[q].error),
        disagree |-> TRUE]
  ELSE With(Matches(creatorEntry.result, validator.results[q].result), LAMBDA m :
         [threw |-> FALSE, rec |-> MatchRecord(validator.validatorId, validator.results[q].result, m),
          disagree |-> ~m])

\* compareResults, lines 339-437: one question against every validator
CompareQuestion(creatorEntry, validators, q) ==
  With([j \in DOMAIN validators |-> CompareOne(creatorEntry, validators[j], q)], LAMBDA one :
    [threw |-> \E j \in DOMAIN validators : one[j].threw,
     question |-> [creatorResult |-> creatorEntry.result,
                   validatorResults |-> [j \in DOMAIN validators |-> one[j].rec],
                   agreement |-> ~(\E j \in DOMAIN validators : one[j].disagree)]])

\* success on partial agreement
SuccessIfAnyAgreed(agreed, total) == agreed > 0
\* compareResults, line 460
SuccessOf(agreed, total) == agreed = total

\* compareResults, lines 328-461, once both result sets are there
CompareAll(creator, validators) ==
  With([q \in DOMAIN creator |-> CompareQuestion(creator[q], validators, q)], LAMBDA cq :
    With(Cardinality({q \in DOMAIN creator : cq[q].question.agreement}), LAMBDA agreed :
      [threw |-> \E q \in DOMAIN creator : cq[q].threw,
       comparison |-> [isNull |-> FALSE,
                       questions |-> [q \in DOMAIN creator |-> cq[q].question],
                       validatorAgreement |-> [total |-> Len(creator), agreed |-> agreed]],
       success |-> SuccessOf(agreed, Len(creator))]))

\* answers handed out whatever the agreement
GetAgreedAnswersUnguarded(comparison, succ) ==
  IF comparison.isNull THEN NoAnswers
  ELSE [isNull |-> FALSE,
        answers |-> [q \in DOMAIN comparison.questions |-> comparison.questions[q].creatorResult]]
\* getAgreedAnswers
GetAgreedAnswers(comparison, succ) ==
  IF comparison.isNull THEN NoAnswers
  ELSE IF ~succ THEN NoAnswers
  ELSE [isNull |-> FALSE,
        answers |-> [q \in DOMAIN comparison.questions |-> comparison.questions[q].creatorResult]]

\* compareResults, lines 318-466, on the Validator `this`: results that are
\* missing are computed first; the catch block rethrows
CompareResultsCall(this) ==
  With(IF this.creatorResults.isNull THEN RunWorldCodeCall(this.worldData)
       ELSE Returned(this.creatorResults.results), LAMBDA w :
    IF w.raised THEN [raised |-> TRUE, error |-> w.error, this |-> this, comparison |-> NoComparison]
    ELSE
    With([this EXCEPT !.creatorResults = [isNull |-> FALSE, results |-> w.results]], LAMBDA this1 :
    With(IF Len(this1.validatorResults) = 0 THEN RunValidatorCodeCall(this1.worldData)
         ELSE [raised |-> FALSE, error |-> NewError(""), list |-> this1.validatorResults, log |-> <<>>],
         LAMBDA v :
      IF v.raised THEN [raised |-> TRUE, error |-> v.error, this |-> this1, comparison |-> NoComparison]
      ELSE
      With([this1 EXCEPT !.validatorResults = v.list], LAMBDA this2 :
      With(CompareAll(w.results, v.list), LAMBDA c :
        IF c.threw
        THEN [raised |-> TRUE, error |-> TypeError, this |-> this2, comparison |-> NoComparison]
        ELSE [raised |-> FALSE, error |-> NewError(""),
              this |-> [this2 EXCEPT !.success = c.success], comparison |-> c.comparison])))))

\* ------------------------------------------------------ validateWorldFromDB
\* the catch block of validateWorldFromDB, lines 529-537: it reads
\* error.message and dbRecord.world_name
CatchValidate(record, e) ==
  IF record.isNull \/ e.kind = "Nullish"
  THEN [NoOutcome EXCEPT !.raised = TRUE]
  ELSE [NoOutcome EXCEPT !.error = e.message]

Settled(this, out, cmp, log) == [this |-> this, outcome |-> out, comparison |-> cmp, log |-> log]

\* validateWorldFromDB(dbRecord) on the Validator `this`, lines 505-538
ValidateWorldFromDBCall(this, record) ==
  IF record.isNull   \* line 507 reads dbRecord.world_name
  THEN Settled(this, CatchValidate(record, TypeError), NoComparison, <<>>)
  ELSE IF ~LoadWorldFromDB(record).loaded
  THEN Settled(this, CatchValidate(record, NewError("Failed to load CVRB from database record")),
               NoComparison, <<>>)
  ELSE
  With([this EXCEPT !.worldData = LoadWorldFromDB(record).worldData], LAMBDA this1 :
  With(RunWorldCodeCall(this1.worldData), LAMBDA w :
  With(IF CreatorSimulated(this1.worldData) THEN <<[caller |-> 0, ret |-> w]>> ELSE <<>>, LAMBDA log1 :
    IF w.raised THEN Settled(this1, CatchValidate(record, w.error), NoComparison, log1)
    ELSE
    With([this1 EXCEPT !.creatorResults = [isNull |-> FALSE, results |-> w.results]], LAMBDA this2 :
    With(RunValidatorCodeCall(this2.worldData), LAMBDA v :
      IF v.raised THEN Settled(this2, CatchValidate(record, v.error), NoComparison, log1 \o v.log)
      ELSE
      With(CompareResultsCall([this2 EXCEPT !.validatorResults = v.list]), LAMBDA c :
        IF c.raised THEN Settled(c.this, CatchValidate(record, c.error), NoComparison, log1 \o v.log)
        ELSE Settled(c.this,
                     [raised |-> FALSE, success |-> c.this.success, error |-> UNDEFINED,
                      agreement |-> c.comparison.validatorAgreement,
                      hasComparison |-> TRUE,
                      agreedAnswers |-> GetAgreedAnswers(c.comparison, c.this.success)],
                     c.comparison, log1 \o v.log)))))))

\* a caller awaits validator.validateWorldFromDB(record)
ValidateWorldFromDB(record) ==
  /\ pc = "idle"
  /\ LET this == [worldData |-> worldData, creatorResults |-> creatorResults,
                  validatorResults |-> validatorResults, success |-> success]
     IN \E r \in {ValidateWorldFromDBCall(this, record)} :
        /\ worldData' = r.this.worldData
        /\ creatorResults' = r.this.creatorResults
        /\ validatorResults' = r.this.validatorResults
        /\ success' = r.this.success
        /\ comparisonResults' = r.comparison
        /\ outcome' = r.outcome
        /\ simLog' = r.log
  /\ dbRecord' = record
  /\ pc' = "done"
  /\ UNCHANGED <<solverVars, statsVars, qualityVars, jsonVars, controllerVars, laterVars>>

\* the records handed to validateWorldFromDB: none, or a world that departs
\* from the healthy one in at most MaxDeviations places
Next ==
  /\ pc = "idle"
  /\ \/ ValidateWorldFromDB(NullRecord)
     \/ \E nQ \in 0..MaxQuestions, nV \in 0..MaxValidators :
          \E ds \in DeviationLists(DeviationsOf(nQ, nV), MaxDeviations) :
            ValidateWorldFromDB(DeviateAll(HealthyRecord(nQ, nV), ds))

Spec == Init /\ [][Next]_vars

\* ------------------------------------------- comparison of returned values
ValueSources ==
  {"return 4", "return 5", "return '4'", "return null", "return [1,2]", "return [2,1]",
   "return {a:1,b:2}", "return {b:2,a:1}", "return {a:1,b:3}", "return {a:1}",
   "return {1:1,2:2}", "return {2:2,1:1}", "return {a:[1,2],b:{c:1,d:2}}",
   "return {a:[1,2],b:{d:2,c:1}}", "return {a:[2,1],b:{c:1,d:2}}"}

\* a world of one question and one validator whose programs return a and b
ValueRecord(a, b) ==
  [HealthyRecord(1, 1) EXCEPT !.world_code.answer[1] = a, !.validation_code[1].answer[1] = b]

NextValues ==
  /\ pc = "idle"
  /\ \E a \in ValueSources, b \in ValueSources : ValidateWorldFromDB(ValueRecord(a, b))

SpecValues == Init /\ [][NextValues]_vars

\* ------------------------------------------------------------- JS strings
\* the strings the solver side handles are sequences of characters
Chars_null == <<"n", "u", "l", "l">>
Chars_undefined == <<"u", "n", "d", "e", "f", "i", "n", "e", "d">>
Chars_object == <<"[", "o", "b", "j", "e", "c", "t", " ", "O", "b", "j", "e", "c", "t", "]">>
Chars_na == <<"n", "/", "a">>
DigitOf == <<"0", "1", "2", "3", "4", "5", "6", "7", "8", "9">>

RECURSIVE Digits(_)
Digits(n) == IF n < 10 THEN <<DigitOf[n + 1]>> ELSE Digits(n \div 10) \o <<DigitOf[(n % 10) + 1]>>

RECURSIVE JoinStrings(_, _)
RECURSIVE StringOf(_)
\* String(v)
StringOf(v) ==
  CASE v.type = "undefined" -> Chars_undefined
    [] v.type = "null" -> Chars_null
    [] v.type = "number" -> IF v.num < 0 THEN <<"-">> \o Digits(-v.num) ELSE Digits(v.num)
    [] v.type = "string" -> v.str
    [] v.type = "array" -> JoinStrings(v.elems, 1)
    [] v.type = "object" -> Chars_object

\* Array.prototype.join: null and undefined elements give the empty string
JoinStrings(es, i) ==
  IF i > Len(es) THEN <<>>
  ELSE (IF i > 1 THEN <<",">> ELSE <<>>)
         \o (IF es[i].type \in {"undefined", "null"} THEN <<>> ELSE StringOf(es[i]))
         \o JoinStrings(es, i + 1)

WhiteSpace == {" ", "\t", "\n"}
RECURSIVE TrimStart(_)
TrimStart(cs) == IF cs # <<>> /\ Head(cs) \in WhiteSpace THEN TrimStart(Tail(cs)) ELSE cs
RECURSIVE TrimEnd(_)
TrimEnd(cs) ==
  IF cs # <<>> /\ cs[Len(cs)] \in WhiteSpace THEN TrimEnd(SubSeq(cs, 1, Len(cs) - 1)) ELSE cs
\* String.prototype.trim
Trim(cs) == TrimEnd(TrimStart(cs))

LowerOf ==
  ("A" :> "a") @@ ("B" :> "b") @@ ("C" :> "c") @@ ("D" :> "d") @@ ("E" :> "e") @@ ("F" :> "f")
  @@ ("G" :> "g") @@ ("H" :> "h") @@ ("I" :> "i") @@ ("J" :> "j") @@ ("K" :> "k") @@ ("L" :> "l")
  @@ ("M" :> "m") @@ ("N" :> "n") @@ ("O" :> "o") @@ ("P" :> "p") @@ ("Q" :> "q") @@ ("R" :> "r")
  @@ ("S" :> "s") @@ ("T" :> "t") @@ ("U" :> "u") @@ ("V" :> "v") @@ ("W" :> "w") @@ ("X" :> "x")
  @@ ("Y" :> "y") @@ ("Z" :> "z")
\* String.prototype.toLowerCase
ToLowerCase(cs) == [i \in DOMAIN cs |-> IF cs[i] \in DOMAIN LowerOf THEN LowerOf[cs[i]] ELSE cs[i]]

\* obj.key of an object: undefined when the key is not there
Prop(obj, key) ==
  IF obj.type = "object" /\ \E i \in DOMAIN obj.keys : obj.keys[i] = key
  THEN obj.elems[CHOOSE i \in DOMAIN obj.keys : obj.keys[i] = key]
  ELSE Undef
\* `key in obj`
HasKey(obj, key) == \E i \in DOMAIN obj.keys : obj.keys[i] = key
\* obj.key = v
SetProp(obj, key, v) ==
  IF HasKey(obj, key)
  THEN [obj EXCEPT !.elems[CHOOSE i \in DOMAIN obj.keys : obj.keys[i] = key] = v]
  ELSE [obj EXCEPT !.keys = Append(@, key), !.elems = Append(@, v)]
IsNullish(v) == v.type \in {"undefined", "null"}

\* the answer check of solveWorld (part_007, lines 290-293) and of
\* calculateSolverStats (part_008, lines 333-342)
Unwrapped(provided) ==
  IF provided.type = "object" /\ HasKey(provided, "value") THEN Prop(provided, "value")
  ELSE provided
IsCorrect(expected, provided) ==
  /\ expected.type # "undefined"
  /\ Unwrapped(provided).type # "undefined"
  /\ ToLowerCase(Trim(StringOf(Unwrapped(provided)))) = ToLowerCase(Trim(StringOf(expected)))

\* ------------------------------------------------------ JS number arithmetic
\* a fractional JS number is kept in millionths: Micro stands for 1.0
Micro == 1000000

Abs(x) == IF x < 0 THEN -x ELSE x
Max2(a, b) == IF a >= b THEN a ELSE b
Min2(a, b) == IF a <= b THEN a ELSE b

RECURSIVE LongFrac(_, _, _)
\* floor(r * 100^n / b) for 0 <= r < b, by long division
LongFrac(r, b, n) ==
  IF n = 0 THEN 0
  ELSE LET m == n - 1 IN
       (((r * 100) \div b) * (IF m = 0 THEN 1 ELSE IF m = 1 THEN 100 ELSE 10000))
         + LongFrac((r * 100) % b, b, m)

\* a / b of two nonnegative numbers in millionths
FDiv(a, b) == ((a \div b) * Micro) + LongFrac(a % b, b, 3)

\* a * b of two nonnegative numbers in millionths
FMul(a, b) ==
  ((a * (b \div 10000)) \div 100)
    + ((a * ((b \div 100) % 100)) \div 10000)
    + ((a * (b % 100)) \div Micro)

\* a * b with signs
SMul(a, b) == (IF (a < 0) = (b < 0) THEN 1 ELSE -1) * FMul(Abs(a), Abs(b))

RECURSIVE NewtonSqrt(_, _)
\* Newton's iteration from above until it stops decreasing
NewtonSqrt(x, r) ==
  LET next == (r + FDiv(x, r)) \div 2 IN
  IF next >= r THEN r ELSE NewtonSqrt(x, next)

\* Math.sqrt of a number in [0, 4]
Sqrt(x) == IF x = 0 THEN 0 ELSE NewtonSqrt(x, 2 * Micro)

\* Math.exp(-1)
ExpMinusOne == 367879

RECURSIVE ExpSeries(_, _, _)
\* the series 1 - f + f^2/2! - ... of exp(-f) for a fraction f, from term number i on
ExpSeries(f, term, i) ==
  IF term = 0 THEN 0 ELSE term - ExpSeries(f, FMul(term, f) \div i, i + 1)

RECURSIVE ExpNeg(_)
\* Math.exp(-x) for x >= 0
ExpNeg(x) ==
  IF x >= 20 * Micro THEN 0
  ELSE IF x >= Micro THEN FMul(ExpMinusOne, ExpNeg(x - Micro))
  ELSE ExpSeries(x, Micro, 1)

\* (x * 100).toFixed(2) of a number in millionths, in hundredths of a
\* percent ("33.33" is 3333); parseFloat reads the same number back
ToFixed2(x) == (x + 50) \div 100
\* (x * 100).toFixed(1), in tenths of a percent
ToFixed1(x) == (x + 500) \div 1000

\* ------------------------------------------------------------- quality
RECURSIVE MaxOf(_, _)
\* Math.max(...scores) from element i on
MaxOf(s, i) == IF i = Len(s) THEN s[i] ELSE Max2(s[i], MaxOf(s, i + 1))
RECURSIVE MinOf(_, _)
\* Math.min(...scores) from element i on
MinOf(s, i) == IF i = Len(s) THEN s[i] ELSE Min2(s[i], MinOf(s, i + 1))

\* a spread taken between the first and the last score
SpreadOfEnds(s) == Abs(s[1] - s[Len(s)])
\* quality, lines 32-34
Spread(s) == MaxOf(s, 1) - MinOf(s, 1)

RECURSIVE PairSum(_, _, _)
\* quality, lines 37-44: the sum of |scores[i] - scores[j]| over the pairs
\* from (i, j) on, in the order of the two loops
PairSum(s, i, j) ==
  IF i > Len(s) - 1 THEN 0
  ELSE IF j > Len(s) THEN PairSum(s, i + 1, i + 2)
  ELSE Abs(s[i] - s[j]) + PairSum(s, i, j + 1)

\* pairCount after the loops
PairCount(s) == (Len(s) * (Len(s) - 1)) \div 2

\* quality, line 45, in millionths
PairAvg(s) == IF PairCount(s) > 0 THEN (PairSum(s, 1, 2) * Micro) \div PairCount(s) ELSE 0

\* quality, line 48
Distinct(s) == Cardinality({s[i] : i \in DOMAIN s}) - 1

\* quality, line 50, in millionths
QualityRaw(s, q) ==
  (((4 * Spread(s) * Micro) \div 10) + ((4 * PairAvg(s)) \div 10)
     + ((2 * Distinct(s) * Micro) \div 10)) \div q

\* a result that is not clamped
Unclamped(x) == x
\* quality, line 53
Clamp01(x) == Max2(0, Min2(Micro, x))

\* quality, lines 22-54
Quality(s, q) ==
  IF Len(s) = 0 THEN 0
  ELSE IF Len(s) = 1 THEN 0
  ELSE Clamp01(QualityRaw(s, q))

\* solveWorld, lines 338-342: the score of a solution row as a finite number
NumericScore(score) == IF score.type = "number" THEN score.num ELSE 0

ScoreValues == {0, 20, 50, 80, 100}
ScaleValues == {5, 100}

\* a call of quality(scores, Q)
QualityCall(s, q) ==
  /\ pc = "idle"
  /\ pc' = "scored"
  /\ scores' = s
  /\ Q' = q
  /\ qualityScore' = Quality(s, q)
  /\ UNCHANGED <<validatorVars, solverVars, statsVars, jsonVars, controllerVars, laterVars>>

\* solveWorld, lines 338-342: the scores of the solution rows of a world
WorldScores(solutionRecords) ==
  [i \in DOMAIN solutionRecords |-> NumericScore(solutionRecords[i].score)]
\* solveWorld, line 346
WorldQuality(solutionRecords) ==
  IF Len(solutionRecords) >= 2 THEN Quality(WorldScores(solutionRecords), 100) ELSE 0

\* updateWorldQuality of the retroactive updater: the quality of a world
\* from the scores of its solution rows; worlds with fewer than two scores
\* are skipped
UpdateQualityScore(solutionRecords) ==
  /\ pc = "idle"
  /\ pc' = "updated"
  /\ scores' = WorldScores(solutionRecords)
  /\ Q' = 100
  /\ qualityScore' = WorldQuality(solutionRecords)
  /\ UNCHANGED <<validatorVars, solverVars, statsVars, jsonVars, controllerVars, laterVars>>

NextQuality ==
  \/ \E n \in 0..MaxScores : \E s \in [1..n -> ScoreValues] : \E q \in ScaleValues :
       QualityCall(s, q)
  \/ \E n \in 0..MaxScores : \E s \in [1..n -> {Num(v) : v \in ScoreValues} \cup {Null}] :
       UpdateQualityScore([i \in 1..n |-> [score |-> s[i]]])

SpecQuality == Init /\ [][NextQuality]_vars

\* ------------------------------------------- SolverController.solveWorld
QuestionIds == <<"q1", "q2", "q3", "q4", "q5">>

\* the agreed answer the validation stored for question i
ExpectedOf(i) ==
  CASE i % 3 = 1 -> Num(4)
    [] i % 3 = 2 -> Obj(<<"a", "b">>, <<Num(1), Num(2)>>)
    [] OTHER -> Str(<<"P", "a", "r", "i", "s">>)

IdVariants == {"distinct", "duplicate", "missing"}
AnswerVariants == {"validated", "unvalidated", "none"}

\* a world of n questions: the last question may repeat the first id or
\* have no id; the questions carry the agreed answers, the placeholder
\* 'n/a' of a failed validation, or no answer field
WorldOf(n, ids, answers) ==
  [isNull |-> FALSE,
   questions |->
     [i \in 1..n |->
        [id |-> IF i = n /\ ids = "missing" THEN UNDEFINED
                ELSE IF i = n /\ ids = "duplicate" THEN QuestionIds[1]
                ELSE QuestionIds[i],
         answer |-> CASE answers = "validated" -> ExpectedOf(i)
                      [] answers = "unvalidated" -> Str(Chars_na)
                      [] answers = "none" -> Undef]]]

\* the property key an id is used as
KeyOf(id) == IF id = UNDEFINED THEN "undefined" ELSE id

\* solveWorld, lines 255-259: questions without id are skipped, a later
\* question of the same id overwrites
ExpectedAnswers(questions) ==
  LET withId == {i \in DOMAIN questions : questions[i].id # UNDEFINED}
      last(k) == CHOOSE i \in withId :
                   /\ questions[i].id = k
                   /\ \A j \in withId : questions[j].id = k => j <= i
  IN [k \in {questions[i].id : i \in withId} |->
        IF questions[last(k)].answer.type = "undefined" THEN Null
        ELSE questions[last(k)].answer]

\* what the model call for one question comes to: callLLM throws, or it
\* returns a text that tryParseJson parses to `value`, or to null
LLMError == [kind |-> "error", value |-> Undef]
Unparsable == [kind |-> "unparsable", value |-> Undef]
Parsed(v) == [kind |-> "parsed", value |-> v]
ParsedValues ==
  {Obj(<<"answer">>, <<Num(4)>>),
   Obj(<<"answer">>, <<Str(<<" ", "P", "A", "R", "I", "S", " ">>)>>),
   Obj(<<"answer">>, <<Obj(<<"value">>, <<Str(<<"4">>)>>)>>),
   Obj(<<"answer">>, <<Num(5)>>),
   Obj(<<"answer">>, <<Obj(<<"a", "b">>, <<Num(1), Num(3)>>)>>),
   Obj(<<>>, <<>>),
   Obj(<<"answer">>, <<Null>>),
   Obj(<<"answer">>, <<Str(<<"N", "/", "A">>)>>),
   Num(4),
   Obj(<<"value">>, <<Num(4)>>)}
Responses == {LLMError, Unparsable} \cup {Parsed(v) : v \in ParsedValues}

\* Solver.getQuestion: the first question with the id
GetQuestion(questions, id) ==
  IF \E i \in DOMAIN questions : questions[i].id = id
  THEN CHOOSE i \in DOMAIN questions :
         questions[i].id = id /\ \A j \in DOMAIN questions : questions[j].id = id => i <= j
  ELSE 0

\* Solver.solveQuestion(questionId, model), lines 185-264, with the model
\* call coming to `response`; saveSolution is the stub solveWorld installs
SolveQuestion(questions, id, response) ==
  IF GetQuestion(questions, id) = 0 THEN Return(Null)
  ELSE IF response.kind = "error" THEN Throw(NewError("OpenRouter API Error"))
  ELSE IF response.kind = "unparsable"
  THEN Throw(NewError("Failed to parse solution response into valid JSON"))
  ELSE IF response.value.type # "object"   \* property assignment on a primitive
  THEN Throw(NewError("TypeError: Cannot create property 'solutionTimeSeconds'"))
  ELSE Return(SetProp(response.value, "solutionTimeSeconds", Str(<<"0", ".", "0", "0">>)))

\* Solver.recordFailedSolution, lines 161-167
FailedSolution(id, errorMessage) ==
  Obj(<<"id", "status", "error", "solutionTimeSeconds", "failed">>,
      <<Str(<<KeyOf(id)>>), Str(<<"failed">>), Str(<<errorMessage>>),
        Str(<<"0", ".", "0", "0">>), Val("boolean", 1, "", <<>>, <<>>)>>)

\* an attemptSolve that loses the failure of its question
AttemptSolvedDropsFailure(sols, questions, id, response) ==
  LET c == SolveQuestion(questions, id, response) IN
  IF c.threw \/ c.value.type = "null" THEN sols ELSE (KeyOf(id) :> c.value) @@ sols

\* attemptSolve, lines 305-319: Solver.solutions after the attempt on the
\* question of this id has settled
AttemptSolved(sols, questions, id, response) ==
  LET c == SolveQuestion(questions, id, response) IN
  IF c.threw
  THEN (KeyOf(id) :> FailedSolution(id, IF Truthy(c.err.message) THEN c.err.message
                                        ELSE "Unknown error occurred")) @@ sols
  ELSE IF c.value.type = "null" THEN sols
  ELSE (KeyOf(id) :> c.value) @@ sols

\* solveWorld line 287: rawResponses[qId].answer
RawAnswer(data) == IF IsNullish(Prop(data, "answer")) THEN data ELSE Prop(data, "answer")

\* Math.round(correct / total * 100)
ScorePercentage(correct, total) ==
  IF total = 0 THEN 0 ELSE (200 * correct + total) \div (2 * total)

\* the number of answers the solver gave
TotalAnswered(world, solverOutput) == Cardinality(DOMAIN solverOutput)
\* solveWorld line 298
TotalQuestions(world, solverOutput) == Len(world.questions)

\* calculateSolverStats, lines 326-348: the marks given to the stored
\* responses whose question has an expected answer
StatsBreakdown(questions, rawResponses) ==
  [k \in DOMAIN rawResponses \cap DOMAIN ExpectedAnswers(questions) |->
     IsCorrect(ExpectedAnswers(questions)[k], rawResponses[k].answer)]

\* solveWorld, lines 282-314: the row written from the solver's output
SolutionRow(world, solverOutput) ==
  LET expectedAnswers == ExpectedAnswers(world.questions)
      expected(k) == IF k \in DOMAIN expectedAnswers THEN expectedAnswers[k] ELSE Undef
      breakdown == [k \in DOMAIN solverOutput |->
                      IsCorrect(expected(k), Prop(solverOutput[k], "answer"))]
      correct == Cardinality({k \in DOMAIN solverOutput : breakdown[k]})
      totalQuestions == TotalQuestions(world, solverOutput)
  IN [isNull |-> FALSE,
      score |-> ScorePercentage(correct, totalQuestions),
      raw_responses |-> [k \in DOMAIN solverOutput |-> [answer |-> RawAnswer(solverOutput[k])]],
      results |-> [total_questions |-> totalQuestions,
                   total_correct_answers |-> correct,
                   error_count |-> totalQuestions - correct,
                   breakdown |-> breakdown]]

\* solveWorld, lines 227-280: the world is looked up and the solver started
SolveWorld(world, parallel) ==
  /\ pc = "idle"
  /\ dbWorld' = world
  /\ runParallel' = parallel
  /\ solutions' = <<>>
  /\ IF world.isNull \/ Len(world.questions) = 0
     THEN pc' = "raised" /\ pending' = {}
     ELSE pc' = "solving" /\ pending' = DOMAIN world.questions
  /\ UNCHANGED <<solutionRecord, validatorVars, statsVars, qualityVars, jsonVars, controllerVars, laterVars>>

\* one attemptSolve settles: in any order when the questions run in
\* parallel, in question order otherwise
AttemptSolve(i, response) ==
  /\ pc = "solving"
  /\ i \in pending
  /\ runParallel \/ \A j \in pending : i <= j
  /\ solutions' = AttemptSolved(solutions, dbWorld.questions, dbWorld.questions[i].id, response)
  /\ pending' = pending \ {i}
  /\ UNCHANGED <<pc, dbWorld, runParallel, solutionRecord, validatorVars, statsVars, qualityVars, jsonVars, controllerVars, laterVars>>

\* the solution rows other models left for the world in earlier runs
OtherSolutions == {<<>>, <<[score |-> Num(50)]>>, <<[score |-> Null]>>}

\* solveQuestions returns; solveWorld stores the attempt and recomputes the
\* quality of the world from all its solution rows, lines 282-353
SaveSolution ==
  /\ pc = "solving"
  /\ pending = {}
  /\ solutionRecord' = SolutionRow(dbWorld, solutions)
  /\ \E others \in OtherSolutions :
       \E all \in {<<[score |-> Num(solutionRecord'.score)]>> \o others} :
         /\ scores' = WorldScores(all)
         /\ Q' = 100
         /\ qualityScore' = WorldQuality(all)
  /\ pc' = "stored"
  /\ UNCHANGED <<dbWorld, runParallel, pending, solutions, validatorVars, statsVars, jsonVars, controllerVars, laterVars>>

NextSolve ==
  \/ \E n \in 0..MaxQuestions, ids \in IdVariants, answers \in AnswerVariants, parallel \in BOOLEAN :
       SolveWorld(WorldOf(n, ids, answers), parallel)
  \/ SolveWorld(NoWorld, TRUE)
  \/ \E i \in pending, response \in Responses : AttemptSolve(i, response)
  \/ SaveSolution

SpecSolve == Init /\ [][NextSolve]_vars

\* ------------------------------------------------- calculateSolverStats
ModelNames == <<"m1", "m2", "m3", "m4">>
OtherKeys == <<"x1", "x2">>

\* a row of the query: the solution of model m for a world of c + w
\* questions with the agreed answer 4, answered " 4 " c times and 5 w times,
\* with u more responses that belong to no question of the world
RowOf(m, c, w, u) ==
  [model |-> ModelNames[m],
   questions |-> [i \in 1..(c + w) |-> [id |-> QuestionIds[i], answer |-> Num(4)]],
   raw_responses |->
     [k \in {QuestionIds[i] : i \in 1..(c + w)} \cup {OtherKeys[i] : i \in 1..u} |->
        [answer |-> IF \E i \in 1..c : QuestionIds[i] = k THEN Str(<<" ", "4", " ">>)
                    ELSE Num(5)]]]

RECURSIVE ModelStats(_, _, _)
\* calculateSolverStats, lines 294-348: total_attempts and correct_answers
\* of a model over the rows from number i on
ModelStats(rows, model, i) ==
  IF i > Len(rows) THEN [total_attempts |-> 0, correct_answers |-> 0]
  ELSE LET rest == ModelStats(rows, model, i + 1)
           marks == StatsBreakdown(rows[i].questions, rows[i].raw_responses)
       IN IF rows[i].model # model THEN rest
          ELSE [total_attempts |-> rest.total_attempts + Cardinality(DOMAIN marks),
                correct_answers |->
                  rest.correct_answers + Cardinality({k \in DOMAIN marks : marks[k]})]

RECURSIVE ModelsOf(_, _, _)
\* Object.entries(modelStats): the models in the order the rows name them first
ModelsOf(rows, i, seen) ==
  IF i > Len(rows) THEN seen
  ELSE ModelsOf(rows, i + 1,
                IF \E j \in DOMAIN seen : seen[j] = rows[i].model THEN seen
                ELSE Append(seen, rows[i].model))

\* z = 1.96 and z ** 2
Z == 1960000
ZSquared == 3841600

\* calculateSolverStats, lines 378-386: the Wilson interval of k correct in n
WilsonCenter(n, k) ==
  FDiv(FDiv(k * Micro, n * Micro) + (ZSquared \div (2 * n)), Micro + (ZSquared \div n))
WilsonMargin(n, k) ==
  LET p == FDiv(k * Micro, n * Micro) IN
  FDiv(FMul(Z, Sqrt((FMul(p, Micro - p) \div n) + (ZSquared \div (4 * n * n)))),
       Micro + (ZSquared \div n))
\* a lower bound taken on the wrong side of the centre
WilsonLowerAbove(n, k) == Min2(Micro, WilsonCenter(n, k) + WilsonMargin(n, k))
WilsonLower(n, k) == Max2(0, WilsonCenter(n, k) - WilsonMargin(n, k))
WilsonUpper(n, k) == Min2(Micro, WilsonCenter(n, k) + WilsonMargin(n, k))

Dash == [isDash |-> TRUE, tenths |-> 0]
Tenths(x) == [isDash |-> FALSE, tenths |-> x]

\* calculateSolverStats, lines 363-397: the row of a model; the numbers
\* printed with two decimals are kept in hundredths
StatsRow(model, data) ==
  IF data.total_attempts = 0
  THEN [model |-> model, total_attempts |-> 0, correct_answers |-> 0, percent_correct |-> 0,
        ci_lower |-> 0, ci_upper |-> 0, ci_margin |-> 0, beats_next_percent |-> Dash]
  ELSE [model |-> model,
        total_attempts |-> data.total_attempts,
        correct_answers |-> data.correct_answers,
        percent_correct |-> ToFixed2(FDiv(data.correct_answers * Micro, data.total_attempts * Micro)),
        ci_lower |-> ToFixed2(WilsonLower(data.total_attempts, data.correct_answers)),
        ci_upper |-> ToFixed2(WilsonUpper(data.total_attempts, data.correct_answers)),
        ci_margin |-> ToFixed2(WilsonMargin(data.total_attempts, data.correct_answers)),
        beats_next_percent |-> Dash]

\* the comparator of stats.sort, lines 400-404: negative when a goes first
CompareRows(a, b) ==
  IF b.percent_correct - a.percent_correct # 0
  THEN b.percent_correct - a.percent_correct
  ELSE b.total_attempts - a.total_attempts
\* a comparator that breaks ties by the fewer attempts
CompareRowsFewerFirst(a, b) ==
  IF b.percent_correct - a.percent_correct # 0
  THEN b.percent_correct - a.percent_correct
  ELSE a.total_attempts - b.total_attempts
CompareStats(a, b) == CompareRows(a, b)

RECURSIVE InsertRow(_, _, _)
\* the place of row r in the sorted rows, after every row it does not precede
InsertRow(sorted, r, i) ==
  IF i > Len(sorted) THEN Append(sorted, r)
  ELSE IF CompareStats(sorted[i], r) > 0
       THEN SubSeq(sorted, 1, i - 1) \o <<r>> \o SubSeq(sorted, i, Len(sorted))
       ELSE InsertRow(sorted, r, i + 1)

RECURSIVE SortStats(_, _, _)
\* Array.prototype.sort, which is stable, with the comparator of lines 400-404
SortStats(rows, i, sorted) ==
  IF i > Len(rows) THEN sorted
  ELSE SortStats(rows, i + 1, InsertRow(sorted, rows[i], 1))

\* calculateSolverStats, lines 407-418: Abramowitz and Stegun 7.1.26
A1 == 254830
A2 == -284497
A3 == 1421414
A4 == -1453152
A5 == 1061405
NormalCdf(zScore) ==
  LET t == FDiv(Micro, Micro + FMul(327591, Abs(zScore)))
      exp == IF Abs(zScore) >= 4400000 THEN 0 ELSE ExpNeg(FMul(Abs(zScore), Abs(zScore)))
      poly == SMul(SMul(SMul(SMul(SMul(A5, t) + A4, t) + A3, t) + A2, t) + A1, t)
      erf == Micro - SMul(poly, exp)
      sign == IF zScore >= 0 THEN 1 ELSE -1
  IN (Micro + (sign * erf)) \div 2

\* calculateSolverStats, lines 426-451: the chance that row a beats row b
BeatsNext(a, b) ==
  LET p1 == a.percent_correct * 100
      p2 == b.percent_correct * 100
      n1 == a.total_attempts
      n2 == b.total_attempts
      sigma == Sqrt((FMul(p1, Micro - p1) \div n1) + (FMul(p2, Micro - p2) \div n2))
  IN IF n1 = 0 \/ n2 = 0 THEN Dash
     ELSE IF sigma = 0 THEN (IF p1 > p2 THEN Tenths(1000) ELSE Tenths(0))
     ELSE Tenths(ToFixed1(NormalCdf(
            (IF p1 >= p2 THEN 1 ELSE -1) * FDiv(Abs(p1 - p2), sigma))))
\* a chance computed even when a row has no attempts
BeatsNextOfEmptyRows(a, b) ==
  IF a.percent_correct > b.percent_correct THEN Tenths(1000) ELSE Tenths(0)
BeatsNextPercent(a, b) == BeatsNext(a, b)

\* calculateSolverStats, lines 420-452
WithBeatsNext(sorted) ==
  [i \in DOMAIN sorted |->
     [sorted[i] EXCEPT !.beats_next_percent =
        IF i = Len(sorted) THEN Dash ELSE BeatsNextPercent(sorted[i], sorted[i + 1])]]

\* calculateSolverStats, lines 291-454: the stats it returns for the rows
SolverStats(rows) ==
  LET models == ModelsOf(rows, 1, <<>>)
      mapped == [i \in DOMAIN models |-> StatsRow(models[i], ModelStats(rows, models[i], 1))]
  IN WithBeatsNext(SortStats(mapped, 1, <<>>))

\* the rows of the query, ordered by model and world: one solution of each
\* of nm models, and a second one of the first model when again is set
QueryRows(nm, counts, again) ==
  LET first == [m \in 1..nm |-> RowOf(m, counts[m][1], counts[m][2], 0)]
  IN IF again /\ nm > 0
     THEN <<first[1], RowOf(1, 1, 1, 1)>> \o SubSeq(first, 2, nm)
     ELSE first

AttemptCounts ==
  {cw \in (0..MaxAttempts) \X (0..MaxAttempts) : cw[1] + cw[2] <= MaxAttempts}

CalculateSolverStats(rows) ==
  /\ pc = "idle"
  /\ pc' = "ranked"
  /\ solutionRows' = rows
  /\ \E r \in {SolverStats(rows)} : stats' = r
  /\ UNCHANGED <<validatorVars, solverVars, qualityVars, jsonVars, controllerVars, laterVars>>

NextStats ==
  /\ pc = "idle"
  /\ \E nm \in 0..MaxModels : \E counts \in [1..nm -> AttemptCounts] : \E again \in BOOLEAN :
       CalculateSolverStats(QueryRows(nm, counts, again))

SpecStats == Init /\ [][NextStats]_vars

\* ------------------------------------------------------------ JSONUtils
\* A text is a sequence of pieces: the characters { } " : 1 a, a line
\* break, the word json, and the fence of three backquotes that opens or
\* closes a code block.
Fence == "fence"
JsonWord == "json"
LineBreak == "\n"
Quote == "\""

\* JS truthiness of a value; a string is its sequence of characters
IsTruthy(v) ==
  CASE v.type = "number" -> v.num # 0
    [] v.type = "string" -> v.str # <<>>
    [] v.type \in {"object", "array"} -> TRUE
    [] OTHER -> FALSE

NoParse == [ok |-> FALSE, val |-> Null, at |-> 0]
ParsedTo(v, i) == [ok |-> TRUE, val |-> v, at |-> i]

RECURSIVE SkipWhiteSpace(_, _)
SkipWhiteSpace(s, i) ==
  IF i <= Len(s) /\ s[i] = LineBreak THEN SkipWhiteSpace(s, i + 1) ELSE i

RECURSIVE RunEnd(_, _, _)
\* the first index from i on whose piece is not in the set
RunEnd(s, i, set) == IF i <= Len(s) /\ s[i] \in set THEN RunEnd(s, i + 1, set) ELSE i

RECURSIVE NumberOf(_, _, _)
\* the number written by the digits s[i..j]
NumberOf(s, i, j) == IF j < i THEN 0 ELSE (10 * NumberOf(s, i, j - 1)) + 1

\* a JSON5 string starting at the quote s[i]
ParseString(s, i) ==
  LET k == RunEnd(s, i + 1, {"{", "}", ":", "1", "a", Fence, JsonWord}) IN
  IF k <= Len(s) /\ s[k] = Quote THEN ParsedTo(Str(SubSeq(s, i + 1, k - 1)), k + 1)
  ELSE NoParse

\* a JSON5 member name at s[i]: a string or an identifier
ParseKey(s, i) ==
  IF i > Len(s) THEN NoParse
  ELSE IF s[i] = Quote THEN ParseString(s, i)
  ELSE IF s[i] \in {"a", JsonWord}
       THEN LET k == RunEnd(s, i, {"a", "1", JsonWord}) IN ParsedTo(Str(SubSeq(s, i, k - 1)), k)
       ELSE NoParse

RECURSIVE ParseValue(_, _)
\* JSON5.parse of the value that starts at or after s[i]
ParseValue(s, i) ==
  LET j == SkipWhiteSpace(s, i) IN
  IF j > Len(s) THEN NoParse
  ELSE IF s[j] = "1"
       THEN LET k == RunEnd(s, j, {"1"}) IN
            IF k <= Len(s) /\ s[k] \in {"a", JsonWord} THEN NoParse
            ELSE ParsedTo(Num(NumberOf(s, j, k - 1)), k)
  ELSE IF s[j] = Quote THEN ParseString(s, j)
  ELSE IF s[j] = "{"
       THEN LET m == SkipWhiteSpace(s, j + 1) IN
            IF m <= Len(s) /\ s[m] = "}" THEN ParsedTo(Obj(<<>>, <<>>), m + 1)
            ELSE LET key == ParseKey(s, m)
                     colon == SkipWhiteSpace(s, key.at)
                 IN IF ~key.ok \/ colon > Len(s) \/ s[colon] # ":" THEN NoParse
                    ELSE LET value == ParseValue(s, colon + 1)
                             close == SkipWhiteSpace(s, value.at)
                         IN IF ~value.ok \/ close > Len(s) \/ s[close] # "}" THEN NoParse
                            ELSE ParsedTo(Obj(<<key.val.str>>, <<value.val>>), close + 1)
  ELSE NoParse

\* safeParse, lines 174-181: the parsed value, or null when JSON5.parse throws
SafeParse(candidate) ==
  LET r == ParseValue(candidate, 1) IN
  IF r.ok /\ SkipWhiteSpace(candidate, r.at) > Len(candidate) THEN r.val ELSE Null

RECURSIVE RemoveJsonFences(_)
\* replace of every fence followed by json and an optional line break
RemoveJsonFences(s) ==
  IF s = <<>> THEN <<>>
  ELSE IF Len(s) >= 2 /\ s[1] = Fence /\ s[2] = JsonWord
       THEN RemoveJsonFences(SubSeq(s, IF Len(s) >= 3 /\ s[3] = LineBreak THEN 4 ELSE 3, Len(s)))
       ELSE <<s[1]>> \o RemoveJsonFences(Tail(s))

RECURSIVE RemoveFences(_)
\* replace of every fence and an optional line break after it
RemoveFences(s) ==
  IF s = <<>> THEN <<>>
  ELSE IF s[1] = Fence
       THEN RemoveFences(SubSeq(s, IF Len(s) >= 2 /\ s[2] = LineBreak THEN 3 ELSE 2, Len(s)))
       ELSE <<s[1]>> \o RemoveFences(Tail(s))

\* cleanJson, lines 133-136
CleanJson(response) == RemoveFences(RemoveJsonFences(response))

\* replace of every fence
RemoveTicks(s) == SelectSeq(s, LAMBDA c : c # Fence)

\* String.prototype.trim
TrimText(s) ==
  LET first == SkipWhiteSpace(s, 1)
      last == CHOOSE k \in 0..Len(s) :
                /\ \A i \in (k + 1)..Len(s) : s[i] = LineBreak
                /\ k > 0 => s[k] # LineBreak
  IN IF first > Len(s) THEN <<>> ELSE SubSeq(s, first, last)

\* the last index at which the fence, followed by json when asked, starts; 0 for none
LastFence(s, withJson) ==
  LET at == {i \in DOMAIN s : s[i] = Fence /\ (withJson => (i < Len(s) /\ s[i + 1] = JsonWord))}
  IN IF at = {} THEN 0 ELSE CHOOSE i \in at : \A j \in at : j <= i

\* extractJsonFenceBlockFromEnd, lines 257-270: <<found, content>>
ExtractJsonFenceBlockFromEnd(str) ==
  LET trimmed == TrimText(str)
      startIdx == LastFence(trimmed, TRUE)
      endIdx == LastFence(trimmed, FALSE)
  IN IF trimmed = <<>> \/ trimmed[Len(trimmed)] # Fence THEN <<FALSE, <<>>>>
     ELSE IF startIdx = 0 THEN <<FALSE, <<>>>>
     ELSE IF endIdx <= startIdx + 1 THEN <<FALSE, <<>>>>
     ELSE <<TRUE, TrimText(SubSeq(trimmed, startIdx + 2, endIdx - 1))>>

RECURSIVE ScanBlock(_, _, _, _, _)
\* extractJsonBlock, lines 211-240: the scan from index i on, with the
\* string state and the depth reached; <<found, candidate>>
ScanBlock(str, firstOpen, i, inString, depth) ==
  IF i > Len(str) THEN <<FALSE, <<>>>>
  ELSE IF str[i] = Quote THEN ScanBlock(str, firstOpen, i + 1, ~inString, depth)
  ELSE IF inString THEN ScanBlock(str, firstOpen, i + 1, inString, depth)
  ELSE IF str[i] = "{" THEN ScanBlock(str, firstOpen, i + 1, inString, depth + 1)
  ELSE IF str[i] = "}"
       THEN IF depth - 1 = 0 /\ IsTruthy(SafeParse(SubSeq(str, firstOpen, i)))
            THEN <<TRUE, SubSeq(str, firstOpen, i)>>
            ELSE ScanBlock(str, firstOpen, i + 1, inString, depth - 1)
  ELSE ScanBlock(str, firstOpen, i + 1, inString, depth)

\* extractJsonBlock, lines 203-243
ExtractJsonBlock(str) ==
  LET open == {i \in DOMAIN str : str[i] = "{"}
      firstOpen == CHOOSE i \in open : \A j \in open : i <= j
  IN IF open = {} THEN <<FALSE, <<>>>>
     ELSE ScanBlock(str, firstOpen, firstOpen, FALSE, 0)

\* tryParseJson, lines 282-321
TryParseJson(str) ==
  LET cleaned == CleanJson(str)
      direct == SafeParse(cleaned)
      fencedBlock == ExtractJsonFenceBlockFromEnd(str)
      parsedFence == SafeParse(CleanJson(fencedBlock[2]))
      parsedNoTicks == SafeParse(RemoveTicks(cleaned))
      block == ExtractJsonBlock(cleaned)
      parsedBlock == SafeParse(block[2])
      fixed == SafeParse(block[2] \o <<"}">>)
  IN IF IsTruthy(direct) THEN direct
     ELSE IF fencedBlock[1] /\ fencedBlock[2] # <<>> /\ IsTruthy(parsedFence) THEN parsedFence
     ELSE IF IsTruthy(parsedNoTicks) THEN parsedNoTicks
     ELSE IF block[1] /\ IsTruthy(parsedBlock) THEN parsedBlock
     ELSE IF block[1] /\ IsTruthy(fixed) THEN fixed
     ELSE Null

RECURSIVE NestedObject(_)
\* {"a":{"a": ... 1}} with d objects
NestedObject(d) ==
  IF d = 0 THEN <<"1">> ELSE <<"{", Quote, "a", Quote, ":">> \o NestedObject(d - 1) \o <<"}">>

\* the JSON texts of a response: objects, an object with a brace inside a
\* string, an empty object, a number
JsonTexts ==
  {NestedObject(d) : d \in 0..MaxNesting}
    \cup {<<"{", Quote, "a", Quote, ":", Quote, "}", Quote, "}">>,
          <<"{", "a", ":", "1", "}">>,
          <<"{", "}">>}

\* the same texts, whole or with the last closing brace missing
ResponseBodies ==
  JsonTexts \cup {SubSeq(t, 1, Len(t) - 1) : t \in {u \in JsonTexts : u[Len(u)] = "}"}}

\* what a model writes before and after the JSON
Leads == {<<>>, <<"a", LineBreak>>, <<Fence, JsonWord, LineBreak>>, <<Fence, LineBreak>>,
          <<"a", LineBreak, Fence, JsonWord, LineBreak>>}
Trails == {<<>>, <<LineBreak, Fence>>, <<LineBreak, Fence, LineBreak>>, <<LineBreak, "a">>}

TryParseJsonCall(str) ==
  /\ pc = "idle"
  /\ pc' = "parsed"
  /\ rawResponse' = str
  /\ \E r \in {TryParseJson(str)} : parsedJson' = r
  /\ UNCHANGED <<validatorVars, solverVars, statsVars, qualityVars, controllerVars, laterVars>>

NextJson ==
  /\ pc = "idle"
  /\ \E lead \in Leads : \E body \in ResponseBodies : \E trail \in Trails :
       TryParseJsonCall(lead \o body \o trail)

SpecJson == Init /\ [][NextJson]_vars

\* --------------------------------------------------- CreatorController
\* the write of the database that rejects during a call, if any
DbFailures == {"none", "updateValidation", "World.update", "every write"}

\* WorldHelpers.updateValidation(id, isValid, notes): the row with the flag written
UpdateValidation(row, isValid) ==
  [row EXCEPT !.is_valid = IF isValid THEN "true" ELSE "false"]

\* an answer taken from the creator's result whatever the validators said
AnswerOfCreator(settled, i) ==
  IF ~settled.comparison.isNull /\ i \in DOMAIN settled.comparison.questions
  THEN [kind |-> "result", value |-> settled.comparison.questions[i].creatorResult]
  ELSE [kind |-> "n/a", value |-> Undef]
\* _runValidation, lines 165-172: the answer stored with question number i
AnswerOf(settled, i) ==
  LET agreedAnswers == settled.outcome.agreedAnswers IN
  IF ~agreedAnswers.isNull /\ i \in DOMAIN agreedAnswers.answers
  THEN [kind |-> "result", value |-> agreedAnswers.answers[i]]
  ELSE [kind |-> "n/a", value |-> Undef]

\* the catch block of _runValidation, lines 182-199
CatchRunValidation(record, row, dbFailure) ==
  IF record.isNull THEN [row |-> row, result |-> NoValidationResult]
  ELSE IF dbFailure = "every write"
  THEN [row |-> row, result |-> [raised |-> TRUE, success |-> FALSE]]
  ELSE [row |-> UpdateValidation(row, FALSE), result |-> NoValidationResult]

\* _runValidation, lines 119-200, after validateWorldFromDB has settled
PersistValidation(record, settled, dbFailure) ==
  LET row == NewRow(Len(record.questions)) IN
  IF settled.outcome.raised THEN CatchRunValidation(record, row, dbFailure)
  ELSE IF dbFailure \in {"updateValidation", "every write"}
  THEN CatchRunValidation(record, row, dbFailure)
  ELSE With(UpdateValidation(row, settled.outcome.success), LAMBDA flagged :
    IF dbFailure = "World.update" THEN CatchRunValidation(record, flagged, dbFailure)
    ELSE [row |-> [flagged EXCEPT !.answers = [i \in DOMAIN row.answers |-> AnswerOf(settled, i)]],
          result |-> [raised |-> FALSE, success |-> settled.outcome.success]])

RunValidation(record, dbFailure) ==
  /\ pc = "idle"
  /\ LET this == [worldData |-> worldData, creatorResults |-> creatorResults,
                  validatorResults |-> validatorResults, success |-> success]
     IN \E r \in {ValidateWorldFromDBCall(this, record)} :
        /\ worldData' = r.this.worldData
        /\ creatorResults' = r.this.creatorResults
        /\ validatorResults' = r.this.validatorResults
        /\ success' = r.this.success
        /\ comparisonResults' = r.comparison
        /\ outcome' = r.outcome
        /\ simLog' = r.log
        /\ \E p \in {PersistValidation(record, r, dbFailure)} :
             /\ worldRow' = p.row
             /\ validationResult' = p.result
  /\ dbRecord' = record
  /\ pc' = "validated"
  /\ UNCHANGED <<solverVars, statsVars, qualityVars, jsonVars, laterVars>>

NextCreate ==
  /\ pc = "idle"
  /\ \E dbFailure \in DbFailures :
       \/ RunValidation(NullRecord, dbFailure)
       \/ \E nQ \in 0..MaxQuestions, nV \in 0..MaxValidators :
            \E ds \in DeviationLists(DeviationsOf(nQ, nV), MaxDeviations) :
              RunValidation(DeviateAll(HealthyRecord(nQ, nV), ds), dbFailure)

SpecCreate == Init /\ [][NextCreate]_vars

\* ------------------------------------- solveWorld and the solutions table
\* the solver models of a call: one, two, or the same one twice
ModelLists == {<<"m1">>, <<"m1", "m2">>, <<"m1", "m1">>}
\* the scores the solver models reach
SolveScores == {0, 50, 100}

\* Solution.findOne, lines 184-198: the number of the row of the model, 0 for none
FindSolution(table, model) ==
  IF \E i \in DOMAIN table : table[i].model = model
  THEN CHOOSE i \in DOMAIN table : table[i].model = model
  ELSE 0

\* createSolution, lines 58-73: a score of 0 is stored as null
CreatedRow(model, score) == [model |-> model, score |-> IF score = 0 THEN Null ELSE Num(score)]

\* getSolutionsByWorldId, lines 119-144: the latest row of every model
LatestSolutions(table) ==
  SelectSeq([i \in DOMAIN table |-> [row |-> table[i], at |-> i]],
            LAMBDA r : \A j \in DOMAIN table : table[j].model = r.row.model => j <= r.at)

\* the solution rows as solveWorld reads their scores
ScoresRead(table) == [i \in DOMAIN LatestSolutions(table) |-> [score |-> LatestSolutions(table)[i].row.score]]

\* solveWorld is called with the solver models, run one by one or together;
\* the calls on a world follow each other, as in CVRB.solveWorlds
SolveWorldRun(c, models, parallel) ==
  /\ runs[c].state = "idle"
  /\ \A d \in 1..(c - 1) : runs[d].state \in {"returned", "rejected"}
  /\ runs' = [runs EXCEPT ![c] =
       [state |-> "running", models |-> models, parallelModels |-> parallel,
        tasks |-> [k \in DOMAIN models |->
                     [pc |-> IF parallel \/ k = 1 THEN "solving" ELSE "waiting",
                      score |-> 0, found |-> 0]],
        qualityScore |-> 0]]
  /\ UNCHANGED <<solutionsTable, storedQuality, besidesRuns>>

\* solveWithModel, lines 280-309: the solver has answered with a score and
\* the row of the model is looked up
GetSolutionByModelAndWorld(c, k, score) ==
  /\ k \in DOMAIN runs[c].tasks
  /\ runs[c].tasks[k].pc = "solving"
  /\ runs' = [runs EXCEPT ![c].tasks[k] =
       [pc |-> "found", score |-> score,
        found |-> FindSolution(solutionsTable, runs[c].models[k])]]
  /\ UNCHANGED <<solutionsTable, storedQuality, besidesRuns>>

\* the run after task k has ended: a failure rejects the call; in a
\* sequential call the next model starts after a success
AfterTask(run, k, ok) ==
  [run EXCEPT
     !.state = IF ok THEN @ ELSE "rejected",
     !.tasks = [j \in DOMAIN @ |->
                  IF j = k THEN [@[j] EXCEPT !.pc = IF ok THEN "saved" ELSE "failed"]
                  ELSE IF ok /\ j = k + 1 /\ @[j].pc = "waiting" THEN [@[j] EXCEPT !.pc = "solving"]
                  ELSE @[j]]]

\* solveWithModel, lines 310-314: the row is created, under the unique
\* index on (model, world_id), or updated
StoreSolution(c, k) ==
  /\ k \in DOMAIN runs[c].tasks
  /\ runs[c].tasks[k].pc = "found"
  /\ LET task == runs[c].tasks[k]
         model == runs[c].models[k]
     IN IF task.found = 0
        THEN IF FindSolution(solutionsTable, model) # 0
             THEN /\ runs' = [runs EXCEPT ![c] = AfterTask(@, k, FALSE)]
                  /\ UNCHANGED solutionsTable
             ELSE /\ solutionsTable' = Append(solutionsTable, CreatedRow(model, task.score))
                  /\ runs' = [runs EXCEPT ![c] = AfterTask(@, k, TRUE)]
        ELSE /\ solutionsTable' = [solutionsTable EXCEPT ![task.found].score = Num(task.score)]
             /\ runs' = [runs EXCEPT ![c] = AfterTask(@, k, TRUE)]
  /\ UNCHANGED <<storedQuality, besidesRuns>>

\* solveWorld, lines 337-346: every model is done; the scores of the world
\* are read and its quality computed
GetSolutionsByWorldId(c) ==
  /\ runs[c].state = "running"
  /\ \A k \in DOMAIN runs[c].tasks : runs[c].tasks[k].pc = "saved"
  /\ runs' = [runs EXCEPT ![c].state = "computed",
                          ![c].qualityScore = WorldQuality(ScoresRead(solutionsTable))]
  /\ UNCHANGED <<solutionsTable, storedQuality, besidesRuns>>

\* solveWorld, lines 348-355: the quality is written, a rejected write is
\* logged, and the call returns
UpdateQualityScoreOfWorld(c, rejected) ==
  /\ runs[c].state = "computed"
  /\ storedQuality' = IF rejected THEN storedQuality
                      ELSE [isNull |-> FALSE, value |-> runs[c].qualityScore]
  /\ runs' = [runs EXCEPT ![c].state = "returned"]
  /\ UNCHANGED <<solutionsTable, besidesRuns>>

NextRuns ==
  \/ \E c \in 1..MaxRuns, models \in ModelLists, parallel \in BOOLEAN : SolveWorldRun(c, models, parallel)
  \/ \E c \in 1..MaxRuns, k \in 1..2, score \in SolveScores : GetSolutionByModelAndWorld(c, k, score)
  \/ \E c \in 1..MaxRuns, k \in 1..2 : StoreSolution(c, k)
  \/ \E c \in 1..MaxRuns : GetSolutionsByWorldId(c)
  \/ \E c \in 1..MaxRuns, rejected \in BOOLEAN : UpdateQualityScoreOfWorld(c, rejected)

SpecRuns == Init /\ [][NextRuns]_vars

\* ------------------------------------------ generateWorlds and solveWorlds
WorldIds == {"w1", "w2"}
\* the world ids passed to solveWorlds: a list, possibly with repeats
IdLists == UNION {[1..n -> WorldIds] : n \in 0..MaxWorlds}

\* the value task i of the batch resolves with
ResultOfWorld(i) == [world |-> i]

\* lines 69-72: the values of the fulfilled results, in order
SettledResults(results) == results
FulfilledResults(results) == SelectSeq(results, LAMBDA r : r.status = "fulfilled")
ValuesOf(results) == [i \in DOMAIN FulfilledResults(results) |-> FulfilledResults(results)[i].value]

\* lines 53-60: init() and one createWorld task per requested world, all started
GenerateWorlds(count, connected) ==
  /\ batch.state = "idle"
  /\ batch' = IF connected
              THEN [op |-> "generateWorlds", state |-> "waiting", ids |-> [i \in 1..count |-> i],
                    tasks |-> [i \in 1..count |-> [status |-> "started", value |-> ResultOfWorld(0)]],
                    next |-> 0]
              ELSE [NoBatch EXCEPT !.op = "generateWorlds", !.state = "rejected"]
  /\ UNCHANGED <<returned, besidesBatch>>

\* a createWorld task settles, in any order
CreateWorldSettles(i, fulfilled) ==
  /\ batch.op = "generateWorlds"
  /\ batch.state = "waiting"
  /\ i \in DOMAIN batch.tasks
  /\ batch.tasks[i].status = "started"
  /\ batch' = [batch EXCEPT !.tasks[i] =
       IF fulfilled THEN [status |-> "fulfilled", value |-> ResultOfWorld(i)]
       ELSE [status |-> "rejected", value |-> ResultOfWorld(0)]]
  /\ UNCHANGED <<returned, besidesBatch>>

\* lines 63-72: Promise.allSettled resolves; the fulfilled values are returned
GenerateWorldsReturns ==
  /\ batch.op = "generateWorlds"
  /\ batch.state = "waiting"
  /\ \A i \in DOMAIN batch.tasks : batch.tasks[i].status # "started"
  /\ batch' = [batch EXCEPT !.state = "returned"]
  /\ returned' = ValuesOf(batch.tasks)
  /\ UNCHANGED besidesBatch

\* lines 84-90: init(), the list of ids, an empty list returns at once
SolveWorlds(ids, connected) ==
  /\ batch.state = "idle"
  /\ IF ~connected
     THEN /\ batch' = [NoBatch EXCEPT !.op = "solveWorlds", !.state = "rejected"]
          /\ UNCHANGED returned
     ELSE IF Len(ids) = 0
     THEN /\ batch' = [NoBatch EXCEPT !.op = "solveWorlds", !.state = "returned"]
          /\ returned' = <<>>
     ELSE /\ batch' = [op |-> "solveWorlds", state |-> "looping", ids |-> ids,
                       tasks |-> [i \in DOMAIN ids |-> [status |-> "waiting", value |-> ResultOfWorld(0)]],
                       next |-> 1]
          /\ returned' = <<>>
  /\ UNCHANGED besidesBatch

\* lines 92-97: solveWorld of the next id returns or throws; aggregated[id],
\* held in returned, is set on success
SolveWorldSettles(fulfilled) ==
  /\ batch.op = "solveWorlds"
  /\ batch.state = "looping"
  /\ batch.next \in DOMAIN batch.ids
  /\ LET i == batch.next
         id == batch.ids[i]
     IN /\ batch' = [batch EXCEPT !.next = i + 1,
                       !.tasks[i] = IF fulfilled THEN [status |-> "fulfilled", value |-> ResultOfWorld(i)]
                                    ELSE [status |-> "rejected", value |-> ResultOfWorld(0)]]
        /\ returned' = IF fulfilled
                       THEN [k \in DOMAIN returned \cup {id} |-> IF k = id THEN ResultOfWorld(i) ELSE returned[k]]
                       ELSE returned
  /\ UNCHANGED besidesBatch

\* line 100: the loop is over
SolveWorldsReturns ==
  /\ batch.op = "solveWorlds"
  /\ batch.state = "looping"
  /\ batch.next > Len(batch.ids)
  /\ batch' = [batch EXCEPT !.state = "returned"]
  /\ UNCHANGED <<returned, besidesBatch>>

\* the caller makes the next call
NextCall ==
  /\ batch.state \in {"returned", "rejected"}
  /\ batch' = NoBatch
  /\ returned' = <<>>
  /\ UNCHANGED besidesBatch

NextBatch ==
  \/ \E count \in 0..MaxWorlds, connected \in BOOLEAN : GenerateWorlds(count, connected)
  \/ \E i \in 1..MaxWorlds, fulfilled \in BOOLEAN : CreateWorldSettles(i, fulfilled)
  \/ GenerateWorldsReturns
  \/ \E ids \in IdLists, connected \in BOOLEAN : SolveWorlds(ids, connected)
  \/ \E fulfilled \in BOOLEAN : SolveWorldSettles(fulfilled)
  \/ SolveWorldsReturns
  \/ NextCall

SpecBatch == Init /\ [][NextBatch]_vars

\* ----------------------------------------------------- BenchmarkReporter
CreatorNames == {"creatorA", "creatorB"}
WorldCounts == {0, 1}

\* the guard of finishSolvePhase with the second test left out
CreatorOpen(current) == current.open
\* line 62: a creator is open and its _solveStart is set
CreatePhaseFinished(current) == current.open /\ current._solveStart # 0

\* lines 26-41
startCreator(name) ==
  /\ hrtime < MaxTicks
  /\ IF _current.open
     THEN /\ callThrew' = TRUE
          /\ UNCHANGED <<_creators, _current, hrtime>>
     ELSE /\ callThrew' = FALSE
          /\ hrtime' = hrtime + 1
          /\ _current' = [NoCreator EXCEPT !.open = TRUE, !.name = name, !.start = hrtime']
          /\ UNCHANGED _creators
  /\ UNCHANGED besidesReporter

\* lines 47-54
finishCreatePhase(valid, invalid) ==
  /\ hrtime < MaxTicks
  /\ IF ~_current.open
     THEN /\ callThrew' = TRUE
          /\ UNCHANGED <<_creators, _current, hrtime>>
     ELSE /\ callThrew' = FALSE
          /\ hrtime' = hrtime + 1
          /\ _current' = [_current EXCEPT !.createTime = hrtime' - _current.start,
                                          !.validWorlds = valid,
                                          !.invalidWorlds = invalid,
                                          !._solveStart = hrtime']
          /\ UNCHANGED _creators
  /\ UNCHANGED besidesReporter

\* lines 60-67
finishSolvePhase(solved) ==
  /\ hrtime < MaxTicks
  /\ IF ~CreatePhaseFinished(_current)
     THEN /\ callThrew' = TRUE
          /\ UNCHANGED <<_creators, _current, hrtime>>
     ELSE /\ callThrew' = FALSE
          /\ hrtime' = hrtime + 1
          /\ _current' = [_current EXCEPT !.solveTime = hrtime' - _current._solveStart,
                                          !.solvedWorlds = solved]
          /\ UNCHANGED _creators
  /\ UNCHANGED besidesReporter

\* lines 72-76
endCreator ==
  /\ IF ~_current.open
     THEN /\ callThrew' = TRUE
          /\ UNCHANGED <<_creators, _current>>
     ELSE /\ callThrew' = FALSE
          /\ _creators' = Append(_creators, _current)
          /\ _current' = NoCreator
  /\ UNCHANGED <<hrtime, besidesReporter>>

NextReporter ==
  \/ \E name \in CreatorNames : startCreator(name)
  \/ \E valid, invalid \in WorldCounts : finishCreatePhase(valid, invalid)
  \/ \E solved \in WorldCounts : finishSolvePhase(solved)
  \/ endCreator

SpecReporter == Init /\ [][NextReporter]_vars

\* ----------------------------------------------------------- promoteWorlds
\* quality scores, in hundredths
QualityScores == {0, 30, 50}
ExceptionalScores == {20, 40}
\* the promoteTop option: any finite number passes line 28
PromoteTops == {-1, 0, 1, 2}
\* the ids passed to promoteWorlds, one more than there are rows
PromotionIds == UNION {[1..n -> 1..(MaxWorlds + 1)] : n \in 0..2}

\* Array.prototype.slice(0, end): a negative end counts from the end
SliceTo(seq, end) ==
  LET last == IF end < 0 THEN IF Len(seq) + end < 0 THEN 0 ELSE Len(seq) + end
              ELSE IF end > Len(seq) THEN Len(seq) ELSE end
  IN SubSeq(seq, 1, last)

\* line 33 and lines 35-38: the valid worlds among the ids
ValidWorlds(ids) ==
  {id \in 1..MaxWorlds : /\ \E k \in DOMAIN ids : ids[k] = id
                         /\ worldsTable[id].exists
                         /\ worldsTable[id].is_valid}

\* lines 35-38: the orders in which findAll may return them, best first
QueryResults(ids) ==
  {order \in [1..Cardinality(ValidWorlds(ids)) -> ValidWorlds(ids)] :
     /\ \A i, j \in DOMAIN order : i # j => order[i] # order[j]
     /\ \A i, j \in DOMAIN order :
          i < j => worldsTable[order[i]].quality_score >= worldsTable[order[j]].quality_score}

\* line 44
Additional(worlds, topWorlds, exceptionalScore) ==
  SelectSeq(worlds, LAMBDA w : /\ worldsTable[w].quality_score > exceptionalScore
                               /\ ~\E k \in DOMAIN topWorlds : topWorlds[k] = w)

\* a world is created, validated or solved while no promotion runs
SaveWorld(id, valid, quality) ==
  /\ promotion.state = "idle"
  /\ worldsTable' = [worldsTable EXCEPT ![id] =
       [exists |-> TRUE, is_valid |-> valid, quality_score |-> quality, set |-> @.set]]
  /\ UNCHANGED <<promotion, updateCounts, besidesPromotion>>

\* lines 27-46
PromoteWorlds(worldIds, promoteTop, exceptionalScore) ==
  /\ promotion.state = "idle"
  /\ \E id \in 1..MaxWorlds : worldsTable[id].exists
  /\ \E worlds \in QueryResults(worldIds) :
       promotion' =
         [state |-> IF Len(worldIds) = 0 \/ Len(worlds) = 0 THEN "returned" ELSE "updating",
          worldIds |-> worldIds, promoteTop |-> promoteTop, exceptionalScore |-> exceptionalScore,
          worlds |-> worlds,
          promoteTargets |-> IF Len(worldIds) = 0 THEN <<>>
                             ELSE SliceTo(worlds, promoteTop)
                                  \o Additional(worlds, SliceTo(worlds, promoteTop), exceptionalScore),
          updated |-> 0]
  /\ updateCounts' = [id \in 1..MaxWorlds |-> 0]
  /\ UNCHANGED <<worldsTable, besidesPromotion>>

\* lines 49-53: updateWorldSet(w.id, 1) for the next target
UpdateWorldSet ==
  /\ promotion.state = "updating"
  /\ promotion.updated < Len(promotion.promoteTargets)
  /\ LET w == promotion.promoteTargets[promotion.updated + 1]
     IN /\ worldsTable' = [worldsTable EXCEPT ![w].set = 1]
        /\ updateCounts' = [updateCounts EXCEPT ![w] = @ + 1]
  /\ promotion' = [promotion EXCEPT !.updated = @ + 1]
  /\ UNCHANGED besidesPromotion

\* line 55
PromoteWorldsReturns ==
  /\ promotion.state = "updating"
  /\ promotion.updated = Len(promotion.promoteTargets)
  /\ promotion' = [promotion EXCEPT !.state = "returned"]
  /\ UNCHANGED <<worldsTable, updateCounts, besidesPromotion>>

\* the caller goes on; the sets of the worlds are reset for the next call
AfterPromotion ==
  /\ promotion.state = "returned"
  /\ promotion' = NoPromotion
  /\ worldsTable' = [id \in 1..MaxWorlds |-> [worldsTable[id] EXCEPT !.set = 0]]
  /\ updateCounts' = [id \in 1..MaxWorlds |-> 0]
  /\ UNCHANGED besidesPromotion

NextPromotion ==
  \/ \E id \in 1..MaxWorlds, valid \in BOOLEAN, quality \in QualityScores : SaveWorld(id, valid, quality)
  \/ \E worldIds \in PromotionIds, promoteTop \in PromoteTops, exceptionalScore \in ExceptionalScores :
       PromoteWorlds(worldIds, promoteTop, exceptionalScore)
  \/ UpdateWorldSet
  \/ PromoteWorldsReturns
  \/ AfterPromotion

SpecPromotion == Init /\ [][NextPromotion]_vars

\* ------------------------------- the Validator shared by the controller
\* the answer of the program of the creator of world w to its question
CreatorAnswer(w) == 10 * w
\* the answer of the validator of world w: the validator of world 2 disagrees
ValidatorAnswer(w) == IF w = 2 THEN 0 ELSE 10 * w

\* lines 337-460: the comparison of creator and validator results
Comparison(ofWorld, ofCreator, ofValidators) ==
  [worldName |-> ofWorld,
   creatorResult |-> ofCreator.answer,
   agreed |-> ofCreator.answer = ofValidators.answer]

\* lines 474-494
AgreedOf(successField, comparison) ==
  IF successField THEN [expectedResult |-> comparison.creatorResult] ELSE <<>>

\* lines 519-528: the object validateWorldFromDB returns
OutcomeOf(instance, comparison) ==
  [worldName |-> instance.worldData,
   success |-> instance.success,
   comparisonResults |-> comparison,
   agreedAnswers |-> AgreedOf(instance.success, comparison),
   creatorResults |-> instance.creatorResults,
   validatorResults |-> instance.validatorResults]

\* lines 505-509: loadWorldFromDB sets worldData, up to the first await
LoadWorld(w) ==
  /\ validations[w].pc = "created"
  /\ sharedValidator' = [sharedValidator EXCEPT !.worldData = w]
  /\ validations' = [validations EXCEPT ![w].pc = "loaded"]
  /\ UNCHANGED besidesShared

\* lines 173-226: runWorldCode runs the code in worldData, up to its await
RunWorldCodeOfInstance(w) ==
  /\ validations[w].pc = "loaded"
  /\ validations' = [validations EXCEPT ![w].pc = "ran code",
       ![w].results = [world |-> sharedValidator.worldData, answer |-> CreatorAnswer(sharedValidator.worldData)]]
  /\ UNCHANGED <<sharedValidator, besidesShared>>

\* lines 229-230: the results are stored in the instance
StoreCreatorResults(w) ==
  /\ validations[w].pc = "ran code"
  /\ sharedValidator' = [sharedValidator EXCEPT !.creatorResults = validations[w].results]
  /\ validations' = [validations EXCEPT ![w].pc = "stored code results"]
  /\ UNCHANGED besidesShared

\* lines 238-292: runValidatorCode runs the validators in worldData, up to its await
RunValidatorCodeOfInstance(w) ==
  /\ validations[w].pc = "stored code results"
  /\ validations' = [validations EXCEPT ![w].pc = "ran validators",
       ![w].results = [world |-> sharedValidator.worldData, answer |-> ValidatorAnswer(sharedValidator.worldData)]]
  /\ UNCHANGED <<sharedValidator, besidesShared>>

\* lines 309-310
StoreValidatorResults(w) ==
  /\ validations[w].pc = "ran validators"
  /\ sharedValidator' = [sharedValidator EXCEPT !.validatorResults = validations[w].results]
  /\ validations' = [validations EXCEPT ![w].pc = "stored validator results"]
  /\ UNCHANGED besidesShared

\* lines 318-461: compareResults compares the fields of the instance and sets success
CompareResultsOfInstance(w) ==
  /\ validations[w].pc = "stored validator results"
  /\ LET comparison == Comparison(sharedValidator.worldData, sharedValidator.creatorResults, sharedValidator.validatorResults)
     IN /\ sharedValidator' = [sharedValidator EXCEPT !.success = comparison.agreed]
        /\ validations' = [validations EXCEPT ![w].pc = "compared", ![w].comparisonResults = comparison]
  /\ UNCHANGED besidesShared

\* lines 516-528: after the await, the outcome is read from the instance
ReturnOutcome(w) ==
  /\ validations[w].pc = "compared"
  /\ validations' = [validations EXCEPT ![w].pc = "returned",
       ![w].result = OutcomeOf(sharedValidator, validations[w].comparisonResults)]
  /\ UNCHANGED <<sharedValidator, besidesShared>>

NextShared ==
  \/ \E w \in 1..MaxWorlds : LoadWorld(w)
  \/ \E w \in 1..MaxWorlds : RunWorldCodeOfInstance(w)
  \/ \E w \in 1..MaxWorlds : StoreCreatorResults(w)
  \/ \E w \in 1..MaxWorlds : RunValidatorCodeOfInstance(w)
  \/ \E w \in 1..MaxWorlds : StoreValidatorResults(w)
  \/ \E w \in 1..MaxWorlds : CompareResultsOfInstance(w)
  \/ \E w \in 1..MaxWorlds : ReturnOutcome(w)

SpecShared == Init /\ [][NextShared]_vars

\* ------------------------------------------ ApiService and its solutions cache
\* what the server answers to a request for the solutions of the world
SolutionsOnServer ==
  [cached |-> TRUE, fetched |-> IF serverWorld = "stored" THEN "before deletion" ELSE "after deletion"]

\* getWorldSolutions, lines 251-257: a cache hit returns at once, otherwise
\* the request is sent
GetWorldSolutions(c) ==
  /\ requests[c].state = "idle"
  /\ \A d \in 1..(c - 1) : requests[d].state # "idle"
  /\ requests' = [requests EXCEPT ![c] =
       IF solutionsCache.cached
       THEN [state |-> "returned", afterDelete |-> deletion = "resolved", failed |-> FALSE,
             data |-> solutionsCache]
       ELSE [state |-> "sent", afterDelete |-> deletion = "resolved", failed |-> FALSE,
             data |-> NotCached]]
  /\ UNCHANGED <<serverWorld, solutionsCache, deletion, besidesCache>>

\* the server answers the request, or the request fails
ServerAnswers(c, fails) ==
  /\ requests[c].state = "sent"
  /\ requests' = [requests EXCEPT ![c].state = "answered", ![c].failed = fails,
                                  ![c].data = IF fails THEN NotCached ELSE SolutionsOnServer]
  /\ UNCHANGED <<serverWorld, solutionsCache, deletion, besidesCache>>

\* getWorldSolutions, lines 257-265: the awaited response is cached and
\* returned; a failure is rethrown
GetWorldSolutionsResolves(c) ==
  /\ requests[c].state = "answered"
  /\ solutionsCache' = IF requests[c].failed THEN solutionsCache ELSE requests[c].data
  /\ requests' = [requests EXCEPT ![c].state = IF requests[c].failed THEN "rejected" ELSE "returned"]
  /\ UNCHANGED <<serverWorld, deletion, besidesCache>>

\* deleteWorld, lines 271-273: the request is sent
DeleteWorld ==
  /\ deletion = "idle"
  /\ deletion' = "sent"
  /\ UNCHANGED <<serverWorld, solutionsCache, requests, besidesCache>>

\* the server deletes the world and its solutions, or the request fails
ServerDeletes(fails) ==
  /\ deletion = "sent"
  /\ deletion' = IF fails THEN "failed" ELSE "deleted"
  /\ serverWorld' = IF fails THEN serverWorld ELSE "deleted"
  /\ UNCHANGED <<solutionsCache, requests, besidesCache>>

\* deleteWorld, lines 273-280: after the await the cache entry is removed;
\* a failure is rethrown
DeleteWorldResolves ==
  /\ deletion \in {"deleted", "failed"}
  /\ deletion' = IF deletion = "deleted" THEN "resolved" ELSE "rejected"
  /\ solutionsCache' = IF deletion = "deleted" THEN NotCached ELSE solutionsCache
  /\ UNCHANGED <<serverWorld, requests, besidesCache>>

\* the user tries the deletion again
DeleteWorldAgain ==
  /\ deletion = "rejected"
  /\ deletion' = "idle"
  /\ UNCHANGED <<serverWorld, solutionsCache, requests, besidesCache>>

NextCache ==
  \/ \E c \in 1..MaxRequests : GetWorldSolutions(c)
  \/ \E c \in 1..MaxRequests, fails \in BOOLEAN : ServerAnswers(c, fails)
  \/ \E c \in 1..MaxRequests : GetWorldSolutionsResolves(c)
  \/ DeleteWorld
  \/ \E fails \in BOOLEAN : ServerDeletes(fails)
  \/ DeleteWorldResolves
  \/ DeleteWorldAgain

SpecCache == Init /\ [][NextCache]_vars

\* ------------------------------------------------------------------ claims
Done == pc = "done"
\* compareResults produced an outcome
Compared == pc = "done" /\ ~comparisonResults.isNull
AllAgreed == \A q \in DOMAIN comparisonResults.questions : comparisonResults.questions[q].agreement
\* the program _runSimulation call number k of simLog ran
ProgramOf(k) ==
  IF simLog[k].caller = 0 THEN worldData.code ELSE worldData.validators[simLog[k].caller]

\* C1: for every outcome of compareResults, success is true if and only if
\* every question's agreement flag is true, i.e. agreed equals total
C1_SuccessIffAllAgreed ==
  Compared =>
    /\ success = AllAgreed
    /\ success = (comparisonResults.validatorAgreement.agreed
                    = comparisonResults.validatorAgreement.total)
    /\ outcome.success = success

\* partial agreement: some question agreed, another did not
C1_Witness ==
  /\ Compared
  /\ ~success
  /\ comparisonResults.validatorAgreement.agreed >= 1

\* C2: the agreed answers returned by validateWorldFromDB are there only
\* when success is true and every question agreed; then they hold the
\* creator's value of every question; otherwise they are null
C2_AgreedAnswersOnlyOnSuccess ==
  Done =>
    /\ ~outcome.agreedAnswers.isNull =>
         /\ outcome.success
         /\ Compared
         /\ AllAgreed
         /\ DOMAIN outcome.agreedAnswers.answers = DOMAIN dbRecord.questions
         /\ \A q \in DOMAIN dbRecord.questions :
              outcome.agreedAnswers.answers[q] = creatorResults.results[q].result
    /\ (outcome.raised \/ ~outcome.success) => outcome.agreedAnswers.isNull

\* a comparison with some but not all questions agreed yields no answers
C2_Witness ==
  /\ Compared
  /\ ~outcome.success
  /\ \E q \in DOMAIN comparisonResults.questions : comparisonResults.questions[q].agreement
  /\ outcome.agreedAnswers.isNull

\* validator j produced no value for question q: it failed as a whole, did
\* not process the question, or failed on the question
ValidatorFailedOn(j, q) ==
  \/ ~validatorResults[j].hasResults
  \/ q \notin DOMAIN validatorResults[j].results
  \/ ~validatorResults[j].results[q].hasResult

\* C3: a question's agreement is true only if every validator entry of the
\* question has matches = true, and one validator error (of the validator,
\* or on the question) or one mismatch makes the question disagree
C3_AgreementNeedsEveryValidator ==
  Compared =>
    \A q \in DOMAIN comparisonResults.questions :
      LET cq == comparisonResults.questions[q] IN
      /\ cq.agreement => \A j \in DOMAIN cq.validatorResults : cq.validatorResults[j].matches
      /\ (\E j \in DOMAIN validatorResults : ValidatorFailedOn(j, q)) => ~cq.agreement
      /\ (\E j \in DOMAIN cq.validatorResults : ~cq.validatorResults[j].matches) => ~cq.agreement

RECURSIVE DeepEqual(_, _)
\* deep structural equality of two JSON values: object keys in any order,
\* array elements in order
DeepEqual(a, b) ==
  /\ a.type = b.type
  /\ CASE a.type = "number" -> a.num = b.num
       [] a.type = "string" -> a.str = b.str
       [] a.type = "array" ->
            /\ Len(a.elems) = Len(b.elems)
            /\ \A i \in DOMAIN a.elems : DeepEqual(a.elems[i], b.elems[i])
       [] a.type = "object" ->
            /\ {a.keys[i] : i \in DOMAIN a.keys} = {b.keys[i] : i \in DOMAIN b.keys}
            /\ \A i \in DOMAIN a.keys : \A j \in DOMAIN b.keys :
                 a.keys[i] = b.keys[j] => DeepEqual(a.elems[i], b.elems[j])
       [] OTHER -> TRUE

\* C4: the creator's and a validator's values match exactly when they are
\* deeply equal, whatever the order of object keys, and array order counts
C4_MatchIsDeepEquality ==
  (Compared /\ creatorResults.results[1].hasResult /\ validatorResults[1].results[1].hasResult) =>
    comparisonResults.questions[1].validatorResults[1].matches
      = DeepEqual(creatorResults.results[1].result, validatorResults[1].results[1].result)

\* C5: every call of _runSimulation returns a result map with an entry for
\* every question, whatever fails on one question
C5_EveryQuestionHasAnEntry ==
  \A k \in DOMAIN simLog :
    /\ ~simLog[k].ret.raised
    /\ DOMAIN simLog[k].ret.results = DOMAIN worldData.questions

\* C6: every entry of a result map of _runSimulation has exactly one of
\* result and error set
C6_ExactlyOneOfResultAndError ==
  \A k \in DOMAIN simLog :
    ~simLog[k].ret.raised =>
      \A q \in DOMAIN simLog[k].ret.results :
        LET e == simLog[k].ret.results[q] IN
        \/ e.hasResult /\ e.error = UNDEFINED
        \/ ~e.hasResult /\ e.error # UNDEFINED

\* validator number j loads and its run over the questions returns
ValidatorWorks(j) ==
  /\ ValidatorSimulated(worldData.validators[j])
  /\ ~RunSimulation(TRUE, worldData.validators[j], worldData.questions, AllowFallbackDefault).raised

\* C7: once runValidatorCode has run, the list of validator results has one
\* entry per validator, in order, an error entry exactly for the validators
\* that failed as a whole
C7_OneEntryPerValidator ==
  (Done /\ ~creatorResults.isNull /\ Len(worldData.validators) > 0) =>
    /\ Len(validatorResults) = Len(worldData.validators)
    /\ \A j \in DOMAIN validatorResults :
         /\ validatorResults[j].validatorId = j
         /\ validatorResults[j].hasResults = ValidatorWorks(j)

Unvalidatable(record) ==
  \/ record.isNull
  \/ ~record.world_code.present
  \/ LoadOf(record.world_code.load) # Exposes("class")
  \/ Len(record.questions) = 0
  \/ Len(record.validation_code) = 0

\* C8: validateWorldFromDB never raises; for a world that cannot be
\* validated it returns success = false with an error message
C8_NeverRaises ==
  Done =>
    /\ ~outcome.raised
    /\ Unvalidatable(dbRecord) => (~outcome.success /\ outcome.error # UNDEFINED)

ReturnsValue(src) == Behaviour(src).kind = "return" /\ Behaviour(src).value.type # "undefined"
TimedOut ==
  {p \in (DOMAIN dbRecord.validation_code) \X (DOMAIN dbRecord.questions) :
     dbRecord.validation_code[p[1]].answer[p[2]] = "loop forever"}

\* every program loads and every question runs getAnswer; one validator
\* times out on one question; every other answer of a validator is the
\* creator's, which is a value
C9_OneTimeout ==
  /\ ~Unvalidatable(dbRecord)
  /\ \A j \in DOMAIN dbRecord.validation_code : ValidatorSimulated(dbRecord.validation_code[j])
  /\ \A q \in DOMAIN dbRecord.questions :
       /\ dbRecord.questions[q].hasValidatorFn
       /\ dbRecord.questions[q].parameters = "plain"
       /\ ReturnsValue(dbRecord.world_code.answer[q])
  /\ Cardinality(TimedOut) = 1
  /\ \A j \in DOMAIN dbRecord.validation_code : \A q \in DOMAIN dbRecord.questions :
       <<j, q>> \notin TimedOut =>
         dbRecord.validation_code[j].answer[q] = dbRecord.world_code.answer[q]

\* C9: when one validator times out on exactly one question and agrees on
\* all others, that question disagrees with the error "Simulation timeout",
\* every other question agrees, success is false and agreed = total - 1
C9_TimeoutCostsOneQuestion ==
  (Done /\ C9_OneTimeout) =>
    /\ ~outcome.raised
    /\ outcome.hasComparison
    /\ ~outcome.success
    /\ outcome.agreement.total = Len(dbRecord.questions)
    /\ outcome.agreement.agreed = outcome.agreement.total - 1
    /\ \A p \in TimedOut :
         /\ ~comparisonResults.questions[p[2]].agreement
         /\ comparisonResults.questions[p[2]].validatorResults[p[1]].error = "Simulation timeout"
         /\ ~comparisonResults.questions[p[2]].validatorResults[p[1]].matches
         /\ \A q \in DOMAIN comparisonResults.questions :
              q # p[2] => comparisonResults.questions[q].agreement

C9_Witness ==
  /\ Done
  /\ C9_OneTimeout
  /\ Len(dbRecord.questions) >= 2
  /\ outcome.agreement.agreed >= 1

\* C10: per question, getAnswer is used when the question has one;
\* otherwise the program's type is constructed and its run method called,
\* and the question gets the value it returns
C10_FallsBackToRun ==
  \A k \in DOMAIN simLog :
    ~simLog[k].ret.raised =>
      \A q \in DOMAIN simLog[k].ret.results :
        LET question == worldData.questions[q]
            e == simLog[k].ret.results[q]
        IN question.parameters = "plain" =>
             /\ (question.hasValidatorFn /\ ReturnsValue(ProgramOf(k).answer[q])) =>
                  e = ResultEntry(Behaviour(ProgramOf(k).answer[q]).value)
             /\ (~question.hasValidatorFn /\ ReturnsValue(ProgramOf(k).run[q])) =>
                  e = ResultEntry(Behaviour(ProgramOf(k).run[q]).value)

\* C10 (amended): per question, getAnswer is used when the question has
\* one; a question without one fails with "Validator_fn failed and fallback
\* is disabled", the program's run method is not called
C10_NoFallbackByDefault ==
  \A k \in DOMAIN simLog :
    ~simLog[k].ret.raised =>
      \A q \in DOMAIN simLog[k].ret.results :
        LET question == worldData.questions[q]
            e == simLog[k].ret.results[q]
        IN question.parameters = "plain" =>
             /\ (question.hasValidatorFn /\ ReturnsValue(ProgramOf(k).answer[q])) =>
                  e = ResultEntry(Behaviour(ProgramOf(k).answer[q]).value)
             /\ ~question.hasValidatorFn =>
                  e = ErrorEntry("Validator_fn failed and fallback is disabled")

\* a program whose run method returns a value was run on a question that
\* has no getAnswer
C10_Witness ==
  \E k \in DOMAIN simLog :
    /\ ~simLog[k].ret.raised
    /\ \E q \in DOMAIN simLog[k].ret.results :
         /\ ~worldData.questions[q].hasValidatorFn
         /\ worldData.questions[q].parameters = "plain"
         /\ ReturnsValue(ProgramOf(k).run[q])
         /\ ~simLog[k].ret.results[q].hasResult

\* C11: every stored solver attempt has total_questions equal to the number
\* of questions of the world, whatever the solver answered, and
\* total_correct_answers + error_count = total_questions with
\* 0 <= total_correct_answers <= total_questions
C11_TotalIsQuestionCount ==
  pc = "stored" =>
    LET r == solutionRecord.results IN
    /\ r.total_questions = Len(dbWorld.questions)
    /\ r.total_correct_answers + r.error_count = r.total_questions
    /\ 0 <= r.total_correct_answers
    /\ r.total_correct_answers <= r.total_questions

\* an attempt with fewer solver entries than questions, one of them correct
C11_Witness ==
  /\ pc = "stored"
  /\ Cardinality(DOMAIN solutions) < Len(dbWorld.questions)
  /\ solutionRecord.results.total_correct_answers >= 1

\* the claim's reading of a correct answer: there is an answer, and the
\* string form of it (of its value field, for an object that has one)
\* equals the agreed answer's, ignoring case and surrounding whitespace
ClaimedCorrect(expected, data) ==
  /\ HasKey(data, "answer")
  /\ expected.type # "undefined"
  /\ LET a == Prop(data, "answer")
         v == IF a.type = "object" /\ HasKey(a, "value") THEN Prop(a, "value") ELSE a
     IN ToLowerCase(Trim(StringOf(v))) = ToLowerCase(Trim(StringOf(expected)))

\* C12: solveWorld and calculateSolverStats mark an answer correct exactly
\* when its unwrapped string form equals the agreed answer's ignoring case
\* and surrounding whitespace; a missing answer is marked incorrect
C12_CorrectIffNormalizedEqual ==
  pc = "stored" =>
    LET expectedAnswers == ExpectedAnswers(dbWorld.questions)
        marks == StatsBreakdown(dbWorld.questions, solutionRecord.raw_responses)
    IN \A k \in DOMAIN solutions \cap DOMAIN expectedAnswers :
         /\ solutionRecord.results.breakdown[k] = ClaimedCorrect(expectedAnswers[k], solutions[k])
         /\ marks[k] = ClaimedCorrect(expectedAnswers[k], solutions[k])

\* C13: while solveQuestions runs and when it returns, every question whose
\* attempt has settled has its entry in the solutions map and there is no
\* other entry; an attempt that settles touches the entry of its own
\* question only, the entries of the siblings stay as they are
C13_FailuresStayLocal ==
  /\ [](pc \in {"solving", "stored"} =>
          DOMAIN solutions =
            {KeyOf(dbWorld.questions[i].id) : i \in DOMAIN dbWorld.questions \ pending})
  /\ [][pc = "solving" /\ pending' # pending =>
          \A i \in pending \ pending' :
            /\ KeyOf(dbWorld.questions[i].id) \in DOMAIN solutions'
            /\ \A k \in DOMAIN solutions :
                 k # KeyOf(dbWorld.questions[i].id) =>
                   k \in DOMAIN solutions' /\ solutions'[k] = solutions[k]]_vars

\* solveQuestions has returned with a failed question and a solved sibling
C13_Witness ==
  /\ pc = "stored"
  /\ \E k \in DOMAIN solutions : HasKey(solutions[k], "failed")
  /\ \E k \in DOMAIN solutions : ~HasKey(solutions[k], "failed")
  /\ Cardinality(DOMAIN solutions) = Len(dbWorld.questions)

Ranked == pc = "ranked"

\* C14: every leaderboard row has 0 <= ci_lower <= percent_correct <=
\* ci_upper <= 100, whatever the attempts n >= 0 and the correct answers
\* 0 <= k <= n of its model
C14_IntervalBracketsPercent ==
  Ranked =>
    \A i \in DOMAIN stats :
      /\ stats[i].correct_answers <= stats[i].total_attempts
      /\ 0 <= stats[i].ci_lower
      /\ stats[i].ci_lower <= stats[i].percent_correct
      /\ stats[i].percent_correct <= stats[i].ci_upper
      /\ stats[i].ci_upper <= 10000
\* rows with no attempts, with none, some and all answers correct
C14_Witness ==
  /\ Ranked
  /\ \E i \in DOMAIN stats : stats[i].total_attempts = 0
  /\ \E i \in DOMAIN stats :
       /\ stats[i].total_attempts > 2
       /\ stats[i].correct_answers > 0
       /\ stats[i].correct_answers < stats[i].total_attempts
       /\ 0 < stats[i].ci_lower
       /\ stats[i].ci_lower < stats[i].percent_correct
       /\ stats[i].percent_correct < stats[i].ci_upper
       /\ stats[i].ci_upper < 10000

\* C15: the rows are ordered by percent_correct, highest first, and rows
\* with the same percent_correct by total_attempts, highest first
C15_RowsAreRanked ==
  Ranked =>
    \A i \in DOMAIN stats : \A j \in DOMAIN stats :
      i < j =>
        \/ stats[i].percent_correct > stats[j].percent_correct
        \/ /\ stats[i].percent_correct = stats[j].percent_correct
           /\ stats[i].total_attempts >= stats[j].total_attempts
\* the query returned the rows in another order, and a tie was broken
C15_Witness ==
  /\ Ranked
  /\ Len(stats) >= 2
  /\ stats[1].model = "m2"
  /\ stats[1].percent_correct = stats[2].percent_correct
  /\ stats[1].total_attempts > stats[2].total_attempts

\* C16: rows with no attempts and the last row report '-' as
\* beats_next_percent; every other row whose successor also has attempts
\* reports a number from 0 to 100
C16_BeatsNextIsDashOrPercent ==
  Ranked =>
    \A i \in DOMAIN stats :
      IF i = Len(stats) \/ stats[i].total_attempts = 0
      THEN stats[i].beats_next_percent = Dash
      ELSE stats[i + 1].total_attempts > 0 =>
             /\ ~stats[i].beats_next_percent.isDash
             /\ stats[i].beats_next_percent.tenths \in 0..1000
\* a row whose successor has attempts, with a number strictly between 50 and 100
C16_Witness ==
  /\ Ranked
  /\ Len(stats) >= 2
  /\ stats[2].total_attempts > 0
  /\ ~stats[1].beats_next_percent.isDash
  /\ stats[1].beats_next_percent.tenths > 500
  /\ stats[1].beats_next_percent.tenths < 1000

Scored == pc \in {"scored", "updated"}

\* the orderings of the sequence s
PermutationsOf(s) ==
  {[i \in DOMAIN s |-> s[p[i]]] :
     p \in {f \in [DOMAIN s -> DOMAIN s] : \A i, j \in DOMAIN s : f[i] = f[j] => i = j}}

\* C17: quality(scores, Q) is the same for every permutation of the
\* scores, and is 0 for fewer than two scores
C17_QualityIsSymmetric ==
  Scored =>
    /\ \A t \in PermutationsOf(scores) : Quality(t, Q) = qualityScore
    /\ Len(scores) < 2 => qualityScore = 0
\* three different scores, none in order, with a nonzero quality
C17_Witness ==
  /\ pc = "scored"
  /\ Len(scores) = 3
  /\ scores[2] > scores[1]
  /\ scores[1] > scores[3]
  /\ qualityScore > 0
  /\ qualityScore < Micro

RECURSIVE SumOfGaps(_)
\* the sum of |scores[i] - scores[j]| over the pairs (i, j) of the set S
SumOfGaps(S) ==
  IF S = {} THEN 0
  ELSE LET x == CHOOSE y \in S : TRUE IN Abs(scores[x[1]] - scores[x[2]]) + SumOfGaps(S \ {x})

ScorePairs == {x \in (DOMAIN scores) \X (DOMAIN scores) : x[1] < x[2]}
ScoreLevels == {scores[i] : i \in DOMAIN scores}
TopScore == CHOOSE v \in ScoreLevels : \A w \in ScoreLevels : w <= v
BottomScore == CHOOSE v \in ScoreLevels : \A w \in ScoreLevels : v <= w
\* (0.4 * spread + 0.4 * pairAvg + 0.2 * distinct) / Q, in millionths
Formula ==
  (((4 * (TopScore - BottomScore) * Micro) \div 10)
     + ((4 * ((SumOfGaps(ScorePairs) * Micro) \div Cardinality(ScorePairs))) \div 10)
     + ((2 * (Cardinality(ScoreLevels) - 1) * Micro) \div 10)) \div Q

\* C18: for at least two scores and Q > 0, quality(scores, Q) is
\* (0.4 * spread + 0.4 * pairAvg + 0.2 * distinct) / Q clamped to [0, 1];
\* it lies in [0, 1], and the scores [20, 80] with Q = 100 give 0.482
C18_QualityIsClampedFormula ==
  (pc = "scored" /\ Len(scores) >= 2 /\ Q > 0) =>
    /\ qualityScore = (IF Formula < 0 THEN 0 ELSE IF Formula > Micro THEN Micro ELSE Formula)
    /\ qualityScore \in 0..Micro
    /\ (scores = <<20, 80>> /\ Q = 100) => qualityScore = 482000
\* the scores [20, 80] with Q = 100
C18_Witness == pc = "scored" /\ scores = <<20, 80>> /\ Q = 100 /\ qualityScore = 482000
\* a quality that the clamp cut down to 1
C18_WitnessClamped == pc = "scored" /\ Len(scores) >= 2 /\ Formula > Micro /\ qualityScore = Micro

\* the response is a JSON object without its last closing brace, and nothing else
MissingClosingBrace ==
  /\ pc = "parsed"
  /\ rawResponse # <<>>
  /\ rawResponse[1] = "{"
  /\ ~IsTruthy(SafeParse(rawResponse))
  /\ IsTruthy(SafeParse(rawResponse \o <<"}">>))

\* C19: tryParseJson recovers a response whose JSON object misses a single
\* closing brace: when the direct parse, the fenced block and the
\* brace-matched block give no parse, the parse of the text with one closing
\* brace appended is returned
C19_RecoversMissingBrace ==
  MissingClosingBrace => parsedJson = SafeParse(rawResponse \o <<"}">>)

Validated == pc = "validated"
\* the validation ended in the agreement of every validator on every question
FullAgreement == outcome.success /\ ~comparisonResults.isNull /\ AllAgreed

\* C20: after _runValidation the stored validity flag is true only on full
\* agreement, and a question's stored answer is the creator's value only
\* then; after a failed or partial validation every answer is the
\* placeholder n/a or untouched
C20_NoPartialGroundTruth ==
  Validated =>
    /\ worldRow.is_valid = "true" => FullAgreement
    /\ \A i \in DOMAIN worldRow.answers :
         worldRow.answers[i].kind = "result" =>
           /\ FullAgreement
           /\ worldRow.answers[i].value = comparisonResults.questions[i].creatorResult
    /\ ~FullAgreement =>
         \A i \in DOMAIN worldRow.answers : worldRow.answers[i].kind \in {"n/a", "untouched"}
\* a partial agreement: one question agreed, another did not, and both
\* questions were stored with the placeholder
C20_Witness ==
  /\ Validated
  /\ ~comparisonResults.isNull
  /\ \E q \in DOMAIN comparisonResults.questions : comparisonResults.questions[q].agreement
  /\ \E q \in DOMAIN comparisonResults.questions : ~comparisonResults.questions[q].agreement
  /\ worldRow.is_valid = "false"
  /\ Len(worldRow.answers) = 2
  /\ \A i \in DOMAIN worldRow.answers : worldRow.answers[i].kind = "n/a"
\* a full agreement stored with the creator's values
C20_WitnessAgreed ==
  /\ Validated
  /\ FullAgreement
  /\ worldRow.is_valid = "true"
  /\ Len(worldRow.answers) = 2
  /\ \A i \in DOMAIN worldRow.answers : worldRow.answers[i].kind = "result"

\* C21: when a solveWorld call returns, the stored quality score of the
\* world is the quality, with Q = 100, of the latest score of every model
\* recorded for the world, and 0 when fewer than two models are recorded
C21_QualityRecomputedOnReturn ==
  [][\A c \in 1..MaxRuns :
       (runs[c].state = "computed" /\ runs'[c].state = "returned")
       => /\ ~storedQuality'.isNull
          /\ storedQuality'.value = WorldQuality(ScoresRead(solutionsTable'))
          /\ Len(LatestSolutions(solutionsTable')) < 2 => storedQuality'.value = 0]_vars

\* C29: after any solveWorld calls there is one solution row per model
\* holding its latest score, and a repeated solve of a model updates the row
\* and does not fail
C29_RepeatedSolveUpdates ==
  /\ \A i, j \in DOMAIN solutionsTable :
       solutionsTable[i].model = solutionsTable[j].model => i = j
  /\ \A c \in 1..MaxRuns : \A k \in DOMAIN runs[c].tasks : runs[c].tasks[k].pc # "failed"

\* C22: a batch call rejects only when the database connection fails, before
\* any world is attempted; otherwise it returns after every requested world
\* has been attempted, and it returns exactly the results of the worlds that
\* succeeded
Attempted(task) == task.status \in {"fulfilled", "rejected"}
Succeeded == {i \in DOMAIN batch.tasks : batch.tasks[i].status = "fulfilled"}
C22_BatchSurvivesWorldFailures ==
  /\ batch.state = "rejected" => batch.tasks = <<>>
  /\ batch.state = "returned" =>
       /\ \A i \in DOMAIN batch.tasks : Attempted(batch.tasks[i])
       /\ batch.op = "generateWorlds" =>
            /\ Len(returned) = Cardinality(Succeeded)
            /\ {returned[k] : k \in DOMAIN returned} = {batch.tasks[i].value : i \in Succeeded}
       /\ batch.op = "solveWorlds" =>
            /\ DOMAIN returned = {batch.ids[i] : i \in Succeeded}
            /\ \A id \in DOMAIN returned :
                 \E i \in Succeeded :
                   /\ batch.ids[i] = id
                   /\ returned[id] = batch.tasks[i].value
                   /\ \A j \in Succeeded : batch.ids[j] = id => j <= i
\* a returned batch in which some world failed and some world succeeded
C22_Witness ==
  /\ batch.state = "returned"
  /\ \E i, j \in DOMAIN batch.tasks :
       batch.tasks[i].status = "rejected" /\ batch.tasks[j].status = "fulfilled" /\ i < j
\* a returned solveWorlds call in which a world failed
C22_WitnessSolve ==
  /\ C22_Witness
  /\ batch.op = "solveWorlds"

\* C23: startCreator while a creator is open, finishSolvePhase before
\* finishCreatePhase, and finishCreatePhase, finishSolvePhase and endCreator
\* with no open creator throw and leave the recorded creators and the open
\* creator as they were; an endCreator that does not throw appends the open
\* creator as one record and closes it
Refused == callThrew' /\ UNCHANGED <<_creators, _current>>
C23_PhaseOrderEnforced ==
  [][/\ (_current.open /\ \E name \in CreatorNames : startCreator(name)) => Refused
     /\ (~_current.open /\ \E valid, invalid \in WorldCounts : finishCreatePhase(valid, invalid)) => Refused
     /\ ((~_current.open \/ _current._solveStart = 0) /\ \E solved \in WorldCounts : finishSolvePhase(solved)) => Refused
     /\ (~_current.open /\ endCreator) => Refused
     /\ (endCreator /\ ~callThrew') =>
          /\ _creators' = Append(_creators, _current)
          /\ _current.open
          /\ ~_current'.open]_vars
\* a second creator is recorded after a refused call
C23_Witness ==
  /\ Len(_creators) = 2
  /\ _creators[2].solveTime > 0
  /\ callThrew

\* C24: when promoteWorlds has returned, the worlds updated to set 1 are
\* the valid worlds among the given ids that are among the first promoteTop
\* of the query result, ordered by quality score descending, or whose
\* quality score exceeds exceptionalScore; each of them was updated once and
\* no other world was updated
WithinTop(id) ==
  \E k \in DOMAIN promotion.worlds : promotion.worlds[k] = id /\ k <= promotion.promoteTop
Exceptional(id) == worldsTable[id].quality_score > promotion.exceptionalScore
C24_PromotesTopAndExceptional ==
  promotion.state = "returned" =>
    \A id \in 1..MaxWorlds :
      IF id \in ValidWorlds(promotion.worldIds) /\ (WithinTop(id) \/ Exceptional(id))
      THEN updateCounts[id] = 1 /\ worldsTable[id].set = 1
      ELSE updateCounts[id] = 0 /\ worldsTable[id].set = 0

\* C25: the outcome validateWorldFromDB returns for a world is the outcome
\* computed from the code, validators and questions of that world alone
OwnOutcome(w) ==
  LET own == [worldData |-> w,
              creatorResults |-> [world |-> w, answer |-> CreatorAnswer(w)],
              validatorResults |-> [world |-> w, answer |-> ValidatorAnswer(w)],
              success |-> CreatorAnswer(w) = ValidatorAnswer(w)]
  IN OutcomeOf(own, Comparison(w, own.creatorResults, own.validatorResults))
C25_OutcomeFromOwnWorld ==
  \A w \in 1..MaxWorlds :
    validations[w].pc = "returned" => validations[w].result = OwnOutcome(w)

\* C26: a question for which the program of the creator produced no value
\* is not marked agreed, so success means that the creator has a value for
\* every question
CreatorHasNoValue(q) == ~creatorResults.results[q].hasResult
C26_NoValueNeverAgreed ==
  Compared =>
    /\ \A q \in DOMAIN comparisonResults.questions :
         CreatorHasNoValue(q) => ~comparisonResults.questions[q].agreement
    /\ success => \A q \in DOMAIN comparisonResults.questions : ~CreatorHasNoValue(q)

\* C27: on a world whose questions carry the placeholder 'n/a' of a failed
\* validation, or no stored answer, solveWorld counts no answer correct
NoRealAnswer(question) == question.answer.type = "undefined" \/ question.answer = Str(Chars_na)
C27_CorrectNeedsAgreedAnswer ==
  (pc = "stored" /\ \A i \in DOMAIN dbWorld.questions : NoRealAnswer(dbWorld.questions[i])) =>
    /\ solutionRecord.results.total_correct_answers = 0
    /\ \A k \in DOMAIN solutionRecord.results.breakdown : ~solutionRecord.results.breakdown[k]

\* C28: the marks calculateSolverStats recomputes from the stored
\* raw_responses are the marks of the breakdown solveWorld stored, and its
\* count of correct answers is the stored total_correct_answers
RecomputedMarks == StatsBreakdown(dbWorld.questions, solutionRecord.raw_responses)
C28_ScorersAgree ==
  pc = "stored" =>
    /\ \A k \in DOMAIN RecomputedMarks : RecomputedMarks[k] = solutionRecord.results.breakdown[k]
    /\ Cardinality({k \in DOMAIN RecomputedMarks : RecomputedMarks[k]})
         = solutionRecord.results.total_correct_answers

\* C30: a getWorldSolutions call made after deleteWorld has resolved does
\* not return solutions fetched before the deletion, and the cache holds
\* only what a fetch that succeeded brought
C30_NoStaleSolutionsAfterDelete ==
  /\ \A c \in 1..MaxRequests :
       (requests[c].state = "returned" /\ requests[c].afterDelete)
       => requests[c].data.fetched # "before deletion"
  /\ solutionsCache.cached =>
       \E c \in 1..MaxRequests :
         requests[c].state = "returned" /\ ~requests[c].failed /\ requests[c].data = solutionsCache

====
